---- MODULE Spec2Model ----
(***************************************************************************)
(* A model of the arXiv-to-mail pipeline: the two discovery adapters       *)
(* (arxiv_search.py, arxiv_search_rss.py), the on-disk artifact cache      *)
(* (pdf_processor.py), the analyzer with its retry/fallback                *)
(* (gemini_analyzer.py) and the per-paper delivery loop (main.py,          *)
(* email_sender.py, wechat_sender.py).                                     *)
(*                                                                         *)
(* Python strings are sequences of one-character strings; None and the     *)
(* empty string are both the empty sequence where only truthiness is read. *)
(* Timestamps are integer ticks, TicksPerDay ticks to a day.               *)
(***************************************************************************)
EXTENDS Integers, Sequences, FiniteSets, TLC

\* ------------------------------------------------------------------ bounds
MaxEntries == 2        \* entries in one upstream response
MaxKeywords == 2       \* keywords in one search call
MaxResultsBound == 2   \* largest max_results tried
MaxDaysBack == 2       \* largest days_back tried
TicksPerDay == 2       \* clock resolution: ticks in one day
NowTick == 8           \* the clock reading at the start of a call
MaxCalls == 4          \* calls made on one PDFProcessor

\* ----------------------------------------------------------------- strings
Min(a, b) == IF a <= b THEN a ELSE b
Max(a, b) == IF a >= b THEN a ELSE b

Whitespace == {" ", "\n"}
Digits == {"0", "1", "2", "3", "4", "5", "6", "7", "8", "9"}

\* s[i:] and s[:n] of Python, 1-based here
Drop(s, n) == SubSeq(s, n + 1, Len(s))
Take(s, n) == SubSeq(s, 1, Min(n, Len(s)))

\* str.find: the first position where t occurs in s, 0 when it does not
Find(s, t) ==
    LET hits == {i \in 1..(Len(s) - Len(t) + 1) : SubSeq(s, i, i + Len(t) - 1) = t}
    IN  IF hits = {} THEN 0 ELSE CHOOSE i \in hits : \A j \in hits : i <= j

\* str.rfind
FindLast(s, t) ==
    LET hits == {i \in 1..(Len(s) - Len(t) + 1) : SubSeq(s, i, i + Len(t) - 1) = t}
    IN  IF hits = {} THEN 0 ELSE CHOOSE i \in hits : \A j \in hits : i >= j

\* t in s
Contains(s, t) == Find(s, t) # 0

\* s.split(t, 1)[0] and s.split(t)[0]
SplitFirstHead(s, t) == IF Contains(s, t) THEN SubSeq(s, 1, Find(s, t) - 1) ELSE s

\* s.split(t, 1)[1], used only where t in s
SplitFirstTail(s, t) == Drop(s, Find(s, t) + Len(t) - 1)

\* s.split(t)[-1]
SplitLast(s, t) == IF Contains(s, t) THEN Drop(s, FindLast(s, t) + Len(t) - 1) ELSE s

\* str.strip()
Strip(s) ==
    LET keep == {i \in 1..Len(s) : s[i] \notin Whitespace}
    IN  IF keep = {} THEN <<>>
        ELSE SubSeq(s, CHOOSE i \in keep : \A j \in keep : i <= j,
                       CHOOSE i \in keep : \A j \in keep : i >= j)

LowerChar(c) ==
    CASE c = "A" -> "a" [] c = "I" -> "i" [] c = "L" -> "l" [] c = "M" -> "m"
      [] c = "N" -> "n" [] c = "X" -> "x" [] OTHER -> c

\* str.lower()
Lower(s) == [i \in 1..Len(s) |-> LowerChar(s[i])]

\* str.replace(old, new): left to right, non-overlapping
RECURSIVE Replace(_, _, _)
Replace(s, old, new) ==
    IF Len(s) < Len(old) THEN s
    ELSE IF SubSeq(s, 1, Len(old)) = old
         THEN new \o Replace(Drop(s, Len(old)), old, new)
         ELSE <<Head(s)>> \o Replace(Tail(s), old, new)

\* the .replace('\n', ' ').replace('  ', ' ').strip() chain of both adapters
NormalizeText(s) == Strip(Replace(Replace(s, <<"\n">>, <<" ">>), <<" ", " ">>, <<" ">>))

\* html.unescape, on the two entities the modelled feeds carry
HtmlUnescape(s) ==
    Replace(Replace(s, <<"&", "#", "1", "0", ";">>, <<"\n">>),
            <<"&", "a", "m", "p", ";">>, <<"&">>)

\* re.sub(r"v\d+$", "", s): drop a v followed by one or more digits that ends
\* the string, or that ends it but for one final newline ($ matches there too)
StripVersion(s) ==
    LET end == IF Len(s) > 0 /\ s[Len(s)] = "\n" THEN Len(s) - 1 ELSE Len(s)
        cuts == {i \in 1..(end - 1) :
                    /\ s[i] = "v"
                    /\ \A j \in (i + 1)..end : s[j] \in Digits}
    IN  IF cuts = {} THEN s
        ELSE SubSeq(s, 1, (CHOOSE i \in cuts : \A j \in cuts : i <= j) - 1)
             \o SubSeq(s, end + 1, Len(s))

\* ------------------------------------------------------------ upstream data
AbsUrl == <<"h", "t", "t", "p", ":", "/", "/", "a", "r", "x", "i", "v", ".", "o", "r", "g", "/", "a", "b", "s", "/">>
PdfUrl == <<"h", "t", "t", "p", ":", "/", "/", "a", "r", "x", "i", "v", ".", "o", "r", "g", "/", "p", "d", "f", "/">>
OaiPrefix == <<"o", "a", "i", ":", "a", "r", "X", "i", "v", ".", "o", "r", "g", ":">>
DotPdf == <<".", "p", "d", "f">>
PdfUrlPrefix == <<"h", "t", "t", "p", "s", ":", "/", "/", "a", "r", "x", "i", "v", ".", "o", "r", "g", "/", "p", "d", "f", "/">>

IdA == <<"2", "5", "0", "7", ".", "1", "2", "3", "4", "5">>
IdB == <<"2", "5", "0", "7", ".", "6", "7", "8", "9", "0">>
IdLegacy == <<"c", "s", "/", "0", "5", "0", "1", "0", "0", "1">>

\* The date fields of an upstream entry.  kind:
\*   "both"    published_parsed and a well-formed published string, both at tick t
\*   "stronly" no published_parsed; published is a well-formed string at tick t
\*   "bad"     no published_parsed; published is a string no format parses
\*   "none"    neither field
\*   "invalid" published_parsed holds out-of-range fields; the string is malformed
Date(kind, age) == [kind |-> kind, t |-> NowTick - age]

Entry(id, link, alt, pub, title, summary) ==
    [id |-> id, link |-> link, alt |-> alt, pub |-> pub, title |-> title, summary |-> summary]

TitleML == <<"M", "L">>
TitleAI == <<"A", "\n", " ", "I">>
SummaryNet == <<"n", "e", "t">>
SummaryAbs == <<"x", "A", "b", "s", "t", "r", "a", "c", "t", ":", " ", "a", "i">>

\* Entries the Query API returns (entry.id is the abs URL with a version).
ApiEntryPool ==
    { Entry(AbsUrl \o IdA \o <<"v", "1">>, AbsUrl \o IdA \o <<"v", "1">>, <<>>,
            Date("both", TicksPerDay), TitleML, SummaryNet),
      Entry(AbsUrl \o IdA \o <<"v", "2">>, AbsUrl \o IdA \o <<"v", "2">>, <<>>,
            Date("both", 1), TitleML, SummaryNet),
      Entry(AbsUrl \o IdB \o <<"v", "1">>, AbsUrl \o IdB \o <<"v", "1">>, <<>>,
            Date("both", 2 * TicksPerDay), TitleAI, SummaryNet),
      Entry(AbsUrl \o IdB \o <<"v", "3">>, AbsUrl \o IdB \o <<"v", "3">>, <<>>,
            Date("both", 0), TitleAI, SummaryNet),
      Entry(AbsUrl \o IdLegacy \o <<"v", "1">>, AbsUrl \o IdLegacy \o <<"v", "1">>, <<>>,
            Date("stronly", TicksPerDay + 1), TitleML, SummaryAbs),
      Entry(AbsUrl \o IdLegacy \o <<"v", "2">>, AbsUrl \o IdLegacy \o <<"v", "2">>, <<>>,
            Date("bad", 0), TitleML, SummaryAbs) }

\* Items the CS feed carries: the three link shapes, an item with no link at
\* all, and the date-field variants.
RssEntryPool ==
    { Entry(OaiPrefix \o IdA \o <<"v", "2">>, AbsUrl \o IdA \o <<"v", "3">>, <<>>,
            Date("both", TicksPerDay), TitleML, SummaryAbs),
      Entry(<<>>, PdfUrl \o IdA \o <<"v", "1">> \o DotPdf, <<>>,
            Date("both", 1), TitleAI, SummaryNet),
      Entry(OaiPrefix \o IdB \o <<"v", "2">>, <<>>, <<>>,
            Date("stronly", 2 * TicksPerDay), TitleAI, SummaryAbs),
      Entry(<<>>, <<>>, AbsUrl \o IdB \o <<"v", "1">>,
            Date("bad", 0), TitleML, SummaryNet),
      Entry(OaiPrefix \o IdLegacy \o <<"v", "1">>, AbsUrl \o IdLegacy \o <<"v", "1">>, <<>>,
            Date("both", 0), TitleML, SummaryNet),
      Entry(<<>>, <<>>, <<>>,
            Date("none", 0), TitleAI, SummaryAbs),
      Entry(OaiPrefix \o IdB \o <<"v", "4">>, AbsUrl \o IdB \o <<"v", "4">>, <<>>,
            Date("invalid", 0), TitleML, SummaryNet) }

KeywordPool == { <<" ", "A", "I">>, <<" ">> }

\* sequences over S of length at most n
SeqsUpTo(S, n) == UNION { [1..k -> S] : k \in 0..n }

\* What one upstream request gives: a failure, or up to MaxEntries entries.
Responses(pool) ==
    {[ok |-> FALSE, entries |-> <<>>]}
        \cup {[ok |-> TRUE, entries |-> e] : e \in SeqsUpTo(pool, MaxEntries)}

\* ------------------------------------------------------------------- state
VARIABLES
    \* search_papers of either adapter
    s_pc,            \* "idle", "api_request", "api_entries", "done"
    s_adapter,       \* "none", "api", "rss"
    s_keywords,      \* the keywords argument
    s_max_results,   \* the max_results argument
    s_days_back,     \* the days_back argument
    s_idx,           \* position of the for loop over keywords
    all_papers,      \* all_papers / results
    seen_arxiv_ids,  \* seen_arxiv_ids / seen_ids
    keyword_papers,  \* keyword_papers of the keyword being processed
    s_left,          \* entries of the current response not yet looped over
    s_ret,           \* what the call gave its caller
    s_obs            \* what the upstream was seen to do during the call

searchVars == <<s_pc, s_adapter, s_keywords, s_max_results, s_days_back, s_idx,
                all_papers, seen_arxiv_ids, keyword_papers, s_left, s_ret, s_obs>>

VARIABLES
    \* the download directory and the calls made on PDFProcessor
    pdf_file,        \* per id, {download_dir}/{id}.pdf: "absent", "partial", "complete"
    png_file,        \* per id, whether {download_dir}/screenshots/{id}.png exists
    c_prev,          \* the call before the last one
    c_last,          \* the last call and what it did
    c_count          \* calls made so far

cacheVars == <<pdf_file, png_file, c_prev, c_last, c_count>>

VARIABLES
    \* one call of GeminiAnalyzer.analyze_abstract
    an_pc,           \* "idle", "done"
    an_abstract,     \* the abstract argument
    an_responses,    \* what the model does on each attempt it is asked for
    an_ret,          \* what the call gave its caller
    an_calls,        \* times generate_content was invoked
    an_title,        \* the title argument
    an_prompts       \* the prompt handed to generate_content, call by call

analyzerVars == <<an_pc, an_abstract, an_responses, an_ret, an_calls, an_title, an_prompts>>

VARIABLES
    \* one run of main_task
    m_cfg,           \* Config and the host: SEND_AS_IMAGE, WECHAT_ENABLED, ...
    m_pc,            \* "idle", "artifact", "analyze", "email", "wechat", "logged", "done"
    m_run,           \* "idle", "running", "completed" (line 111 or 55), "error" (line 114)
    m_papers,        \* papers: what search_papers returned
    m_i,             \* i of the for loop, 0 before it
    screenshot_path, \* of the paper in hand
    analysis,        \* of the paper in hand
    email_success,   \* of the paper in hand
    wechat_success,  \* of the paper in hand
    wechat_sender,   \* WeChatSender: enabled, wx (the session is open)
    m_log,           \* what was logged for the paper in hand
    m_obs,           \* what was seen to happen for the paper in hand
    m_hist           \* what was seen to happen over the run

mainVars == <<m_cfg, m_pc, m_run, m_papers, m_i, screenshot_path, analysis,
              email_success, wechat_success, wechat_sender, m_log, m_obs, m_hist>>

VARIABLES
    \* one call of ArxivRSSSearcher._extract_arxiv_id_from_link
    x_pc,            \* "idle", "done"
    x_link,          \* the link argument
    x_id,            \* the id the link was built around
    x_ret,           \* what the call returned
    x_api            \* what line 146 of the Query-API adapter makes of the same URL

extractVars == <<x_pc, x_link, x_id, x_ret, x_api>>

VARIABLES
    \* the process started by `python main.py [once]`
    st_pc,           \* "idle", "run_once", "run_scheduled", "waiting", "in_task",
                     \* "exited"
    st_env,          \* Config's attributes as read from the environment
    st_once,         \* sys.argv[1] == "once"
    st_exit,         \* the exit status, NoExit while the process runs
    st_tasks,        \* times main_task was entered
    st_ticks,        \* passes of the loop of run_scheduled
    st_active,       \* calls of main_task that have not returned
    st_runs          \* how each call of main_task ended, in order

startVars == <<st_pc, st_env, st_once, st_exit, st_tasks, st_ticks, st_active, st_runs>>

VARIABLES
    \* one query of ArxivSearcher.build_query put to the upstream index
    q_pc,            \* "idle", "built", "answered"
    q_keyword,       \* the keyword argument
    q_days_back,     \* the days_back argument
    q_query,         \* the query built, as its tokens
    q_doc            \* a document the upstream gave as a solution of the query

queryVars == <<q_pc, q_keyword, q_days_back, q_query, q_doc>>

VARIABLES
    \* one title or summary of an upstream entry made into a record's field
    n_pc,            \* "idle", "done"
    n_field,         \* which adapter and which field
    n_text,          \* the upstream string
    n_out            \* the field of the record

textVars == <<n_pc, n_field, n_text, n_out>>

VARIABLES
    \* successive runs of main_task in one process, over one download directory
    r_pc,            \* "idle", "artifact", "deliver", "between"
    r_cfg,           \* Config and the host, fixed when the process starts
    r_run,           \* the number of the run, 0 before the first
    r_papers,        \* what search_papers returned to the run
    r_i,             \* i of the for loop
    r_sender,        \* the WeChatSender of the run
    r_now,           \* per id, what the run has done: the e-mail sender called,
                     \* SMTP transmissions, chat sends, the preview found cached
    r_prev           \* what the run before found and e-mailed, and the ids
                     \* delivered by the runs before this one

runVars == <<r_pc, r_cfg, r_run, r_papers, r_i, r_sender, r_now, r_prev>>

vars == <<searchVars, cacheVars, analyzerVars, mainVars, extractVars, startVars, queryVars, textVars,
          runVars>>

otherThanSearch ==
    <<cacheVars, analyzerVars, mainVars, extractVars, startVars, queryVars, textVars,
      runVars>>
otherThanCache ==
    <<searchVars, analyzerVars, mainVars, extractVars, startVars, queryVars, textVars,
      runVars>>
otherThanAnalyzer ==
    <<searchVars, cacheVars, mainVars, extractVars, startVars, queryVars, textVars,
      runVars>>
otherThanMain ==
    <<searchVars, analyzerVars, c_prev, c_last, c_count, extractVars, startVars, queryVars,
      textVars,
      runVars>>
otherThanExtract ==
    <<searchVars, cacheVars, analyzerVars, mainVars, startVars, queryVars, textVars,
      runVars>>
otherThanStart ==
    <<searchVars, cacheVars, analyzerVars, mainVars, extractVars, queryVars, textVars,
      runVars>>
otherThanQuery ==
    <<searchVars, cacheVars, analyzerVars, mainVars, extractVars, startVars, textVars,
      runVars>>
otherThanText ==
    <<searchVars, cacheVars, analyzerVars, mainVars, extractVars, startVars, queryVars,
      runVars>>

\* The outcome of a Python call: a value, or an exception that left it.
Returned(v) == [raised |-> FALSE, val |-> v]
Raised == [raised |-> TRUE, val |-> <<>>]
NoCall == [raised |-> FALSE, val |-> <<>>]

\* ------------------------------------------------- Query-API adapter (api)
\* strptime(entry.published, '%Y-%m-%dT%H:%M:%SZ'): raises unless well-formed
\* the parse made lenient: a date that does not parse becomes the present
Api_strptime_FallsBackToNow(pub) ==
    IF pub.kind \in {"both", "stronly"} THEN Returned(pub.t) ELSE Returned(NowTick)

Api_strptime(pub) == IF pub.kind \in {"both", "stronly"} THEN Returned(pub.t) ELSE Raised

Api_arxiv_id(entry_id) == SplitFirstHead(SplitLast(entry_id, <<"/">>), <<"v">>)

Api_extract_paper_info(entry) ==
    LET arxiv_id == Api_arxiv_id(entry.id)
        published == Api_strptime(entry.pub)
    IN  IF published.raised THEN Raised
        ELSE Returned([arxiv_id |-> arxiv_id,
                       title |-> NormalizeText(entry.title),
                       abstract |-> NormalizeText(entry.summary),
                       published_date |-> published.val,
                       arxiv_url |-> entry.id,
                       pdf_url |-> PdfUrlPrefix \o arxiv_id \o DotPdf])

\* extract_paper_info of every entry the upstream can return, computed once
Api_InfoOf == [e \in ApiEntryPool |-> Api_extract_paper_info(e)]

\* list.sort(key=published_date, reverse=True): stable, newest first
InsertByDate(sorted, p) ==
    LET k == Cardinality({i \in 1..Len(sorted) : sorted[i].published_date >= p.published_date})
    IN  SubSeq(sorted, 1, k) \o <<p>> \o SubSeq(sorted, k + 1, Len(sorted))

\* the sort left out: the list stays in the order the records were appended
SortByPublished_Missing(papers) == papers

RECURSIVE SortByPublishedDesc(_)
SortByPublishedDesc(papers) ==
    IF papers = <<>> THEN <<>>
    ELSE InsertByDate(SortByPublishedDesc(SubSeq(papers, 1, Len(papers) - 1)),
                      papers[Len(papers)])

\* the dedup test never firing
Api_AlreadySeen_Never(arxiv_id, seen) == FALSE

\* the membership test of the dedup step
Api_AlreadySeen(arxiv_id, seen) == arxiv_id \in seen

\* the recency test with a strict comparison
Api_InWindow_Strict(published_date, cutoff_date) == published_date > cutoff_date

\* the recency test of the post-filter
Api_InWindow(published_date, cutoff_date) == published_date >= cutoff_date

\* One pass of the body of the for loop over feed.entries, lines 104-118:
\* the state of keyword_papers and seen_arxiv_ids after entry.
Api_EntryBody(entry, papers, seen, cutoff_date) ==
    LET r == Api_InfoOf[entry]
    IN  IF r.raised
        THEN [keyword_papers |-> papers, seen |-> seen]
        ELSE IF Api_AlreadySeen(r.val.arxiv_id, seen)
        THEN [keyword_papers |-> papers, seen |-> seen]
        ELSE IF Api_InWindow(r.val.published_date, cutoff_date)
        THEN [keyword_papers |-> Append(papers, r.val), seen |-> seen \cup {r.val.arxiv_id}]
        ELSE [keyword_papers |-> papers, seen |-> seen]

\* lines 127-133: sort, soft cap, slice
\* lines 131-133 with a hard cap of max_results per keyword
Api_Finish_HardCap(papers, max_results, keywords) ==
    Take(SortByPublishedDesc(papers), max_results * Len(keywords))

Api_Finish(papers, max_results, keywords) ==
    LET sorted == SortByPublishedDesc(papers)
        final_res_num == Max(Len(sorted), max_results * Len(keywords))
    IN  Take(sorted, final_res_num)

\* the exception of one keyword's request leaving search_papers
Api_OnKeywordError_Propagates(papers) == [raised |-> TRUE, papers |-> papers]

\* lines 123-125: what an exception in one keyword's try block leads to
Api_OnKeywordError(papers) == [raised |-> FALSE, papers |-> papers]

Cutoff(days_back) == NowTick - days_back * TicksPerDay

IdsOf(papers) == {papers[i].arxiv_id : i \in 1..Len(papers)}

\* Observations of one call: requests issued, requests that failed, the
\* records appended (id and date, in the order they were appended), in-date
\* records the upstream offered that are older than the cutoff, whether an id
\* was offered again after it was appended, whether an item failed extraction,
\* whether a new record dated exactly at the cutoff was dropped.
NoObs == [requests |-> 0, failed |-> 0, accepted |-> <<>>, stale |-> {},
          dup |-> FALSE, bad |-> FALSE, edge_lost |-> FALSE, unmatched |-> FALSE]

Brief(info) == [arxiv_id |-> info.arxiv_id, published_date |-> info.published_date]

\* r is the extraction result of one offered item, taken whether the code
\* appended it, eligible whether it passed every filter but the recency one.
ObserveItem(obs, r, cutoff, taken, eligible) ==
    IF r.raised THEN [obs EXCEPT !.bad = TRUE]
    ELSE [obs EXCEPT
            !.dup = @ \/ r.val.arxiv_id \in IdsOf(obs.accepted),
            !.stale = IF r.val.published_date < cutoff
                      THEN @ \cup {Brief(r.val)} ELSE @,
            !.edge_lost = @ \/ (eligible /\ ~taken /\ r.val.published_date = cutoff),
            !.accepted = IF taken THEN Append(@, Brief(r.val)) ELSE @]

\* search_papers is called: lines 77-79, and 127-133 at once when the keyword
\* list is empty and the loop body never runs.
Api_search_papers_begin ==
    /\ s_pc = "idle"
    /\ \E keywords \in SeqsUpTo(KeywordPool, MaxKeywords),
          max_results \in 0..MaxResultsBound,
          days_back \in 1..MaxDaysBack :
        /\ s_adapter' = "api"
        /\ s_keywords' = keywords
        /\ s_max_results' = max_results
        /\ s_days_back' = days_back
        /\ s_idx' = 1
        /\ all_papers' = <<>>
        /\ seen_arxiv_ids' = {}
        /\ keyword_papers' = <<>>
        /\ s_left' = 0
        /\ s_obs' = NoObs
        /\ IF keywords = <<>>
           THEN /\ s_pc' = "done"
                /\ s_ret' = Returned(Api_Finish(<<>>, max_results, keywords))
           ELSE /\ s_pc' = "api_request"
                /\ s_ret' = NoCall

\* The loop over keywords moves on from keyword s_idx with papers accumulated;
\* after the last keyword the function runs on through lines 127-133.
Api_EndKeyword(papers) ==
    /\ keyword_papers' = <<>>
    /\ s_left' = 0
    /\ s_idx' = s_idx + 1
    /\ IF s_idx = Len(s_keywords)
       THEN /\ s_pc' = "done"
            /\ all_papers' = SortByPublishedDesc(papers)
            /\ s_ret' = Returned(Api_Finish(papers, s_max_results, s_keywords))
       ELSE /\ s_pc' = "api_request"
            /\ all_papers' = papers
            /\ s_ret' = NoCall

\* lines 83-102 for keyword s_idx: the query is built and sent.  The request
\* fails (requests.get or raise_for_status raises) or gives n entries.
Api_request ==
    /\ s_pc = "api_request"
    /\ \E ok \in BOOLEAN, n \in 0..MaxEntries :
        IF ~ok
        THEN /\ n = 0
             /\ s_obs' = [s_obs EXCEPT !.requests = @ + 1, !.failed = @ + 1]
             /\ UNCHANGED seen_arxiv_ids
             /\ LET h == Api_OnKeywordError(all_papers)
                IN  IF h.raised
                    THEN /\ s_pc' = "done"
                         /\ s_ret' = Raised
                         /\ UNCHANGED <<all_papers, keyword_papers, s_left, s_idx>>
                    ELSE Api_EndKeyword(h.papers)
        ELSE /\ s_obs' = [s_obs EXCEPT !.requests = @ + 1]
             /\ UNCHANGED seen_arxiv_ids
             /\ IF n = 0
                THEN Api_EndKeyword(all_papers \o <<>>)
                ELSE /\ s_pc' = "api_entries"
                     /\ s_left' = n
                     /\ keyword_papers' = <<>>
                     /\ UNCHANGED <<all_papers, s_idx, s_ret>>
    /\ UNCHANGED <<s_adapter, s_keywords, s_max_results, s_days_back>>

\* One iteration of the loop over feed.entries, lines 103-118; after the last
\* entry, lines 120-121 (all_papers.extend) and the next keyword.
Api_entry ==
    /\ s_pc = "api_entries"
    /\ \E entry \in ApiEntryPool :
        LET cutoff_date == Cutoff(s_days_back)
            b == Api_EntryBody(entry, keyword_papers, seen_arxiv_ids, cutoff_date)
        IN  /\ seen_arxiv_ids' = b.seen
            /\ s_obs' = ObserveItem(s_obs, Api_InfoOf[entry], cutoff_date,
                                    Len(b.keyword_papers) > Len(keyword_papers),
                                    ~Api_InfoOf[entry].raised
                                      /\ Api_InfoOf[entry].val.arxiv_id \notin IdsOf(s_obs.accepted))
            /\ IF s_left = 1
               THEN Api_EndKeyword(all_papers \o b.keyword_papers)
               ELSE /\ keyword_papers' = b.keyword_papers
                    /\ s_left' = s_left - 1
                    /\ UNCHANGED <<all_papers, s_idx, s_pc, s_ret>>
    /\ UNCHANGED <<s_adapter, s_keywords, s_max_results, s_days_back>>

SearchInit ==
    /\ s_pc = "idle"
    /\ s_adapter = "none"
    /\ s_keywords = <<>>
    /\ s_max_results = 1
    /\ s_days_back = 1
    /\ s_idx = 1
    /\ all_papers = <<>>
    /\ seen_arxiv_ids = {}
    /\ keyword_papers = <<>>
    /\ s_left = 0
    /\ s_ret = NoCall
    /\ s_obs = NoObs

\* ----------------------------------------------------- Feed adapter (rss)
StartsWith(s, t) == Len(s) >= Len(t) /\ SubSeq(s, 1, Len(t)) = t

Rss_extract_arxiv_id_from_link(link) ==
    IF link = <<>> THEN <<>>
    ELSE LET abs == <<"/", "a", "b", "s", "/">>
             pdf == <<"/", "p", "d", "f", "/">>
             c1 == IF Contains(link, abs) THEN SplitFirstTail(link, abs)
                   ELSE IF Contains(link, pdf) THEN SplitFirstTail(link, pdf)
                   ELSE link
             c2 == IF /\ Contains(c1, <<":">>)
                      /\ \/ StartsWith(c1, <<"o", "a", "i", ":">>)
                         \/ Contains(c1, <<"a", "r", "X", "i", "v", ".", "o", "r", "g", ":">>)
                   THEN SplitLast(c1, <<":">>)
                   ELSE c1
             c3 == SplitFirstHead(c2, DotPdf)
             c4 == SplitFirstHead(c3, <<"?">>)
         IN  Strip(StripVersion(c4))

\* _safe_parse_datetime: the parsed time, or the clock when nothing parses
Rss_safe_parse_datetime(pub, clock) ==
    IF pub.kind = "stronly" THEN pub.t ELSE clock

\* lines 133-140: published_parsed first, then the string
Rss_published(pub, clock) ==
    CASE pub.kind = "both" -> Returned(pub.t)
      [] pub.kind = "invalid" -> Raised
      [] OTHER -> Returned(Rss_safe_parse_datetime(pub, clock))

Rss_cleaned_summary(raw_summary) ==
    LET marker == <<"A", "b", "s", "t", "r", "a", "c", "t", ":">>
        cut == IF Contains(raw_summary, marker) THEN SplitFirstTail(raw_summary, marker)
               ELSE raw_summary
    IN  NormalizeText(HtmlUnescape(cut))

Rss_extract_paper_info(entry, clock) ==
    LET entry_link == IF entry.link # <<>> THEN entry.link ELSE entry.alt
        link_for_id == IF entry_link # <<>> THEN entry_link ELSE entry.id
        published == Rss_published(entry.pub, clock)
        info(arxiv_id) ==
            [arxiv_id |-> arxiv_id,
             title |-> NormalizeText(entry.title),
             abstract |-> Rss_cleaned_summary(entry.summary),
             published_date |-> published.val,
             arxiv_url |-> link_for_id,
             pdf_url |-> IF arxiv_id # <<>> THEN PdfUrlPrefix \o arxiv_id \o DotPdf
                         ELSE <<>>]
    IN  IF published.raised THEN Raised
        ELSE Returned(info(Rss_extract_arxiv_id_from_link(link_for_id)))

\* _extract_paper_info of every item the feed can carry, for both clock
\* readings, computed once
Rss_InfoOf == [e \in RssEntryPool |-> [late \in 0..1 |-> Rss_extract_paper_info(e, NowTick + late)]]

\* line 44: the stripped, lower-cased, non-blank keywords
Rss_keywords_norm(keywords) ==
    LET kept == SelectSeq(keywords, LAMBDA kw : kw # <<>> /\ Strip(kw) # <<>>)
    IN  [i \in 1..Len(kept) |-> Lower(Strip(kept[i]))]

\* the keyword filter left out
Rss_KeywordPass_Always(info, keywords_norm) == TRUE

\* lines 76-77: does the item pass the keyword filter
Rss_KeywordPass(info, keywords_norm) ==
    LET text_blob == Lower(info.title \o <<"\n">> \o info.abstract)
    IN  ~(/\ keywords_norm # <<>>
          /\ ~\E i \in 1..Len(keywords_norm) : Contains(text_blob, keywords_norm[i]))

Rss_TooOld(published_date, cutoff_dt) == published_date < cutoff_dt

Rss_AlreadySeen(arxiv_id, seen_ids) == arxiv_id \in seen_ids

\* the body of the for loop, lines 65-85: r is what _extract_paper_info did,
\* acc the results and seen_ids so far
Rss_EntryBody(r, acc, cutoff_dt, keywords_norm) ==
    IF r.raised THEN acc
    ELSE IF Rss_TooOld(r.val.published_date, cutoff_dt) THEN acc
    ELSE IF ~Rss_KeywordPass(r.val, keywords_norm) THEN acc
    ELSE IF Rss_AlreadySeen(r.val.arxiv_id, acc.seen_ids) THEN acc
    ELSE [results |-> Append(acc.results, r.val),
          seen_ids |-> acc.seen_ids \cup {r.val.arxiv_id}]

\* the for loop over feed.entries, lines 64-85
RECURSIVE Rss_EntryLoop(_, _, _, _, _)
Rss_EntryLoop(entries, acc, cutoff_dt, keywords_norm, clock) ==
    IF entries = <<>> THEN acc
    ELSE Rss_EntryLoop(Tail(entries),
                       Rss_EntryBody(Rss_InfoOf[Head(entries)][clock - NowTick], acc,
                                     cutoff_dt, keywords_norm),
                       cutoff_dt, keywords_norm, clock)

\* lines 91-92 with a hard cap of max_results per keyword
Rss_Finish_HardCap(results, max_results, keywords) ==
    Take(SortByPublishedDesc(results), max_results * Max(1, Len(keywords)))

\* lines 87-92: sort, soft cap, slice
Rss_Finish(results, max_results, keywords) ==
    LET cap(sorted) == Take(sorted, Max(Len(sorted), max_results * Max(1, Len(keywords))))
    IN  cap(SortByPublishedDesc(results))

\* What the loop was seen to do with each entry, in order.
RECURSIVE Rss_Observe(_, _, _, _, _, _)
Rss_Observe(obs, entries, seen_ids, cutoff_dt, keywords_norm, late) ==
    IF entries = <<>> THEN obs
    ELSE LET step(r, b) ==
                 Rss_Observe([ObserveItem(obs, r, cutoff_dt, b.results # <<>>,
                                          /\ ~r.raised
                                          /\ r.val.arxiv_id \notin IdsOf(obs.accepted)
                                          /\ Rss_KeywordPass(r.val, keywords_norm))
                                EXCEPT !.unmatched =
                                    @ \/ (~r.raised /\ b.results = <<>>
                                             /\ r.val.published_date >= cutoff_dt
                                             /\ r.val.arxiv_id \notin seen_ids)],
                             Tail(entries), b.seen_ids, cutoff_dt, keywords_norm, late)
             body(r) ==
                 step(r, Rss_EntryBody(r, [results |-> <<>>, seen_ids |-> seen_ids],
                                       cutoff_dt, keywords_norm))
         IN  body(Rss_InfoOf[Head(entries)][late])

\* The body of search_papers, lines 43-92.  The response is a failure (the
\* fetch or raise_for_status raised) or the entries feedparser recovered.
Rss_SearchBody(keywords, max_results, days_back, response, clock) ==
    LET done(r) ==
            [ret |-> Returned(Rss_Finish(r.results, max_results, keywords)),
             results |-> SortByPublishedDesc(r.results), seen_ids |-> r.seen_ids]
    IN  IF ~response.ok
        THEN [ret |-> Returned(<<>>), results |-> <<>>, seen_ids |-> {}]
        ELSE done(Rss_EntryLoop(response.entries, [results |-> <<>>, seen_ids |-> {}],
                                Cutoff(days_back), Rss_keywords_norm(keywords), clock))

\* One call of ArxivRSSSearcher.search_papers.  late is how far the clock has
\* moved on when _safe_parse_datetime reads it.
Rss_search_papers ==
    /\ s_pc = "idle"
    /\ \E keywords \in SeqsUpTo(KeywordPool, MaxKeywords),
          max_results \in 0..MaxResultsBound,
          days_back \in 1..MaxDaysBack,
          response \in Responses(RssEntryPool),
          late \in 0..1 :
        \E b \in {Rss_SearchBody(keywords, max_results, days_back, response, NowTick + late)} :
            /\ s_adapter' = "rss"
            /\ s_keywords' = keywords
            /\ s_max_results' = max_results
            /\ s_days_back' = days_back
            /\ s_idx' = 1
            /\ all_papers' = b.results
            /\ seen_arxiv_ids' = b.seen_ids
            /\ s_ret' = b.ret
            /\ keyword_papers' = <<>>
            /\ s_left' = 0
            /\ s_obs' = Rss_Observe([NoObs EXCEPT !.requests = 1,
                                                  !.failed = IF response.ok THEN 0 ELSE 1],
                                    response.entries, {}, Cutoff(days_back),
                                    Rss_keywords_norm(keywords), late)
            /\ s_pc' = "done"

SearchNext ==
    \/ Api_search_papers_begin /\ UNCHANGED otherThanSearch
    \/ Api_request /\ UNCHANGED otherThanSearch
    \/ Api_entry /\ UNCHANGED otherThanSearch
    \/ Rss_search_papers /\ UNCHANGED otherThanSearch


\* ------------------------------------- Feed adapter: links handed to the
\* id extraction.  The three shapes of the docstring, lines 175-180, around an
\* id, with a version and possibly a query string.
LinkShapes == {"abs", "pdf", "oai"}
IdSolv == <<"s", "o", "l", "v", "-", "i", "n", "t", "/", "9", "9", "0", "1", "0", "0", "1">>
LinkIds == {IdA, IdLegacy, IdSolv}
LinkVersions == {<<"1">>, <<"3">>, <<"1", "2">>}
LinkQueries ==
    { <<>>,
      <<"?", "a", "=", "1">>,
      <<"?", "f", "=", "x", ".", "p", "d", "f">>,
      <<"?", "t", "=", "1", ":", "2">>,
      <<"?", "r", "e", "f", "=", "/", "a", "b", "s", "/", "1">>,
      <<"?", "s", "=", "a", "r", "X", "i", "v", ".", "o", "r", "g", ":", "r", "s", "s">> }

LinkOf(shape, id, version, query) ==
    CASE shape = "abs" -> AbsUrl \o id \o <<"v">> \o version \o query
      [] shape = "pdf" -> PdfUrl \o id \o <<"v">> \o version \o DotPdf \o query
      [] OTHER -> OaiPrefix \o id \o <<"v">> \o version \o query

\* One call of _extract_arxiv_id_from_link, lines 174-204.
Rss_extract_id ==
    /\ x_pc = "idle"
    /\ \E shape \in LinkShapes, id \in LinkIds, version \in LinkVersions,
          query \in LinkQueries :
        /\ x_link' = LinkOf(shape, id, version, query)
        /\ x_id' = id
        /\ x_ret' = Rss_extract_arxiv_id_from_link(LinkOf(shape, id, version, query))
    /\ x_pc' = "done"
    /\ UNCHANGED x_api

\* arxiv_search.py 146 on the same URL, taken as entry.id
Api_extract_id ==
    /\ x_pc = "done"
    /\ x_api' = Api_arxiv_id(x_link)
    /\ x_pc' = "both"
    /\ UNCHANGED <<x_link, x_id, x_ret>>

ExtractInit ==
    /\ x_pc = "idle"
    /\ x_link = <<>>
    /\ x_id = <<>>
    /\ x_ret = <<>>
    /\ x_api = <<>>

ExtractNext ==
    \/ Rss_extract_id /\ UNCHANGED otherThanExtract
    \/ Api_extract_id /\ UNCHANGED otherThanExtract

\* ------------------------------------------- artifact cache (PDFProcessor)
CacheIds == {IdA, IdB}

None == <<>>
\* os.path.join(self.download_dir, f"{arxiv_id}.pdf")
PdfPath(arxiv_id) == <<"./downloads", "/">> \o arxiv_id \o DotPdf
\* os.path.join(self.screenshot_dir, f"{arxiv_id}.png")
ScreenshotPath(arxiv_id) == <<"./downloads", "/", "screenshots", "/">> \o arxiv_id \o <<".", "p", "n", "g">>

\* os.path.exists(pdf_path), with the check left out
PdfExists_Never(disk, arxiv_id) == FALSE

\* os.path.exists(pdf_path): a partly written file exists too
PdfExists(disk, arxiv_id) == disk.pdf[arxiv_id] # "absent"

\* download_pdf, lines 36-64.  net is what the network does if asked:
\* "refused" (requests.get or raise_for_status raises), "midstream" (the
\* stream breaks after open() created the file), "ok".
download_pdf(disk, arxiv_id, net) ==
    IF PdfExists(disk, arxiv_id)
    THEN [ret |-> PdfPath(arxiv_id), disk |-> disk, fetched |-> FALSE]
    ELSE CASE net = "refused" ->
                [ret |-> None, disk |-> disk, fetched |-> TRUE]
           [] net = "midstream" ->
                [ret |-> None, disk |-> [disk EXCEPT !.pdf[arxiv_id] = "partial"],
                 fetched |-> TRUE]
           [] OTHER ->
                [ret |-> PdfPath(arxiv_id),
                 disk |-> [disk EXCEPT !.pdf[arxiv_id] = "complete"], fetched |-> TRUE]

\* create_screenshot, lines 77-164.  render_ok is whether opening, rasterizing
\* and saving work on the file at pdf_path; a missing file never opens.
create_screenshot(disk, arxiv_id, render_ok) ==
    IF disk.png[arxiv_id]
    THEN [ret |-> ScreenshotPath(arxiv_id), disk |-> disk, rendered |-> FALSE]
    ELSE IF disk.pdf[arxiv_id] # "absent" /\ render_ok
    THEN [ret |-> ScreenshotPath(arxiv_id),
          disk |-> [disk EXCEPT !.png[arxiv_id] = TRUE], rendered |-> TRUE]
    ELSE [ret |-> None, disk |-> disk, rendered |-> FALSE]

\* process_paper with the inner try of lines 192-196 left out: a failing
\* os.remove reaches the handler of line 200
process_paper_RemoveErrorPropagates(disk, arxiv_id, net, render_ok, remove_ok) ==
    LET d == download_pdf(disk, arxiv_id, net)
        c == create_screenshot(d.disk, arxiv_id, render_ok)
    IN  IF d.ret = None
        THEN [ret |-> None, disk |-> d.disk, fetched |-> d.fetched, rendered |-> FALSE,
              downloaded |-> FALSE, remove |-> "none"]
        ELSE IF c.ret = None
        THEN [ret |-> None, disk |-> c.disk, fetched |-> d.fetched, rendered |-> FALSE,
              downloaded |-> TRUE, remove |-> "none"]
        ELSE IF ~remove_ok
        THEN [ret |-> None, disk |-> c.disk, fetched |-> d.fetched, rendered |-> c.rendered,
              downloaded |-> TRUE, remove |-> "failed"]
        ELSE [ret |-> c.ret, disk |-> [c.disk EXCEPT !.pdf[arxiv_id] = "absent"],
              fetched |-> d.fetched, rendered |-> c.rendered,
              downloaded |-> TRUE, remove |-> "ok"]

\* process_paper, lines 176-201.  remove_ok is whether os.remove works.
\* downloaded: download_pdf gave a path; remove: what os.remove did, if called.
process_paper(disk, arxiv_id, net, render_ok, remove_ok) ==
    LET d == download_pdf(disk, arxiv_id, net)
        c == create_screenshot(d.disk, arxiv_id, render_ok)
    IN  IF d.ret = None
        THEN [ret |-> None, disk |-> d.disk, fetched |-> d.fetched, rendered |-> FALSE,
              downloaded |-> FALSE, remove |-> "none"]
        ELSE IF c.ret = None
        THEN [ret |-> None, disk |-> c.disk, fetched |-> d.fetched, rendered |-> FALSE,
              downloaded |-> TRUE, remove |-> "none"]
        ELSE [ret |-> c.ret,
              disk |-> IF remove_ok THEN [c.disk EXCEPT !.pdf[arxiv_id] = "absent"]
                       ELSE c.disk,
              fetched |-> d.fetched, rendered |-> c.rendered,
              downloaded |-> TRUE, remove |-> IF remove_ok THEN "ok" ELSE "failed"]

Disk == [pdf |-> pdf_file, png |-> png_file]
NetOutcomes == {"refused", "midstream", "ok"}

CallRec(op, arxiv_id, ret, fetched, rendered, png_before) ==
    [op |-> op, id |-> arxiv_id, ret |-> ret, fetched |-> fetched,
     rendered |-> rendered, png_before |-> png_before,
     downloaded |-> FALSE, remove |-> "none"]
NoCallRec == CallRec("none", <<>>, None, FALSE, FALSE, FALSE)

Cache_download_pdf ==
    /\ c_count < MaxCalls
    /\ \E arxiv_id \in CacheIds, net \in NetOutcomes :
        LET r == download_pdf(Disk, arxiv_id, net)
        IN  /\ pdf_file' = r.disk.pdf
            /\ png_file' = r.disk.png
            /\ c_prev' = c_last
            /\ c_last' = CallRec("download_pdf", arxiv_id, r.ret, r.fetched, FALSE,
                                 png_file[arxiv_id])
            /\ c_count' = c_count + 1

Cache_create_screenshot ==
    /\ c_count < MaxCalls
    /\ \E arxiv_id \in CacheIds, render_ok \in BOOLEAN :
        LET r == create_screenshot(Disk, arxiv_id, render_ok)
        IN  /\ pdf_file' = r.disk.pdf
            /\ png_file' = r.disk.png
            /\ c_prev' = c_last
            /\ c_last' = CallRec("create_screenshot", arxiv_id, r.ret, FALSE, r.rendered,
                                 png_file[arxiv_id])
            /\ c_count' = c_count + 1

Cache_process_paper ==
    /\ c_count < MaxCalls
    /\ \E arxiv_id \in CacheIds, net \in NetOutcomes,
          render_ok \in BOOLEAN, remove_ok \in BOOLEAN :
        LET r == process_paper(Disk, arxiv_id, net, render_ok, remove_ok)
        IN  /\ pdf_file' = r.disk.pdf
            /\ png_file' = r.disk.png
            /\ c_prev' = c_last
            /\ c_last' = [CallRec("process_paper", arxiv_id, r.ret, r.fetched, r.rendered,
                                  png_file[arxiv_id])
                             EXCEPT !.downloaded = r.downloaded, !.remove = r.remove]
            /\ c_count' = c_count + 1

\* PDFProcessor.__init__ on an empty download directory
CacheInit ==
    /\ pdf_file = [i \in CacheIds |-> "absent"]
    /\ png_file = [i \in CacheIds |-> FALSE]
    /\ c_prev = NoCallRec
    /\ c_last = NoCallRec
    /\ c_count = 0

CacheNext ==
    \/ Cache_download_pdf /\ UNCHANGED otherThanCache
    \/ Cache_create_screenshot /\ UNCHANGED otherThanCache
    \/ Cache_process_paper /\ UNCHANGED otherThanCache

\* ------------------------------------------------ analyzer (GeminiAnalyzer)
max_retries == 3

WordsML ==
    {<<"m", "a", "c", "h", "i", "n", "e", " ", "l", "e", "a", "r", "n", "i", "n", "g">>,
     <<"d", "e", "e", "p", " ", "l", "e", "a", "r", "n", "i", "n", "g">>,
     <<"n", "e", "u", "r", "a", "l">>}
WordsCV ==
    {<<"c", "o", "m", "p", "u", "t", "e", "r", " ", "v", "i", "s", "i", "o", "n">>,
     <<"i", "m", "a", "g", "e">>,
     <<"v", "i", "s", "u", "a", "l">>}
WordsNLP ==
    {<<"n", "a", "t", "u", "r", "a", "l", " ", "l", "a", "n", "g", "u", "a", "g", "e">>,
     <<"n", "l", "p">>,
     <<"t", "e", "x", "t">>}
WordsRobot ==
    {<<"r", "o", "b", "o", "t">>,
     <<"c", "o", "n", "t", "r", "o", "l">>,
     <<"p", "l", "a", "n", "n", "i", "n", "g">>}

AnyWordIn(words, text) == \E w \in words : Contains(text, w)

\* _get_fallback_analysis, lines 103-126: the field label by keyword match,
\* the template filled in, then strip()
_get_fallback_analysis(abstract) ==
    LET low == Lower(abstract)
        field == IF AnyWordIn(WordsML, low) THEN "machine-learning"
                 ELSE IF AnyWordIn(WordsCV, low) THEN "computer-vision"
                 ELSE IF AnyWordIn(WordsNLP, low) THEN "nlp"
                 ELSE IF AnyWordIn(WordsRobot, low) THEN "robotics"
                 ELSE "ai"
    IN  Strip(<<"\n", "**field**:", field, "\n", "\n", "**contribution**:", field,
                "\n", "\n", "**method**:", "\n", "\n", "**results**:", "\n", "\n",
                "**value**:", field, "\n", "\n", "note", "\n">>)

\* What the model does when generate_content is called: it raises (the call
\* or reading response.text), or it answers with a text.
ModelRaises == [raises |-> TRUE, text |-> <<>>]
ModelSays(text) == [raises |-> FALSE, text |-> text]
ModelResponses ==
    {ModelRaises, ModelSays(<<>>), ModelSays(<<" ", "\n">>), ModelSays(<<"o", "k">>),
     ModelSays(<<" ", "o", "k", "\n">>)}

\* lines 58-61: the template with the title and the abstract filled in
analysis_prompt(title, abstract) ==
    <<"\n", "analyse", "\n", "title:">> \o title \o <<"\n", "\n", "abstract:">>
        \o abstract \o <<"\n", "\n", "in-chinese", "\n">>

\* the loop of lines 66-80 cut down to a single attempt
An_RetryLoop_Once(responses, attempt, retries) ==
    IF responses[1].raises \/ responses[1].text = <<>>
    THEN [kind |-> "exhausted", text |-> <<>>, calls |-> 1]
    ELSE [kind |-> "return", text |-> Strip(responses[1].text), calls |-> 1]

\* The retry loop, lines 66-80, from attempt (0-based) on.  kind is "return"
\* (line 73), "raise" (line 80) or "exhausted" (the loop ran out, line 83).
RECURSIVE An_RetryLoop(_, _, _)
An_RetryLoop(responses, attempt, retries) ==
    IF attempt >= retries THEN [kind |-> "exhausted", text |-> <<>>, calls |-> attempt]
    ELSE LET response == responses[attempt + 1]
         IN  IF response.raises
             THEN IF attempt = retries - 1
                  THEN [kind |-> "raise", text |-> <<>>, calls |-> attempt + 1]
                  ELSE An_RetryLoop(responses, attempt + 1, retries)
             ELSE IF response.text # <<>>
             THEN [kind |-> "return", text |-> Strip(response.text), calls |-> attempt + 1]
             ELSE An_RetryLoop(responses, attempt + 1, retries)

\* the outer handler of analyze_abstract left out: the exception leaves the call
An_OnError_Propagates(abstract) == Raised

\* except Exception, lines 85-87: the fallback text is returned
An_OnError(abstract) == Returned(_get_fallback_analysis(abstract))

\* analyze_abstract, lines 56-87
analyze_abstract(abstract, responses) ==
    LET r == An_RetryLoop(responses, 0, max_retries)
    IN  CASE r.kind = "return" -> [ret |-> Returned(r.text), calls |-> r.calls]
          [] r.kind = "raise" -> [ret |-> An_OnError(abstract), calls |-> r.calls]
          [] OTHER -> [ret |-> Returned(_get_fallback_analysis(abstract)),
                       calls |-> r.calls]

AbstractPool ==
    { <<"n", "e", "t">>, <<"a", "i">>, <<"N", "e", "u", "r", "a", "l", " ", "n", "e", "t">>,
      <<"a", "n", " ", "i", "m", "a", "g", "e">>, <<"N", "L", "P">>,
      <<"a", " ", "r", "o", "b", "o", "t">> }

\* title is optional and defaults to "" (line 44)
TitlePool == { <<>>, <<"A", " ", "n", "e", "t">> }

An_analyze_abstract ==
    /\ an_pc = "idle"
    /\ \E abstract \in AbstractPool, title \in TitlePool,
          responses \in [1..max_retries -> ModelResponses] :
        LET r == analyze_abstract(abstract, responses)
        IN  /\ an_abstract' = abstract
            /\ an_title' = title
            /\ an_responses' = responses
            /\ an_ret' = r.ret
            /\ an_calls' = r.calls
            /\ an_prompts' = [k \in 1..r.calls |-> analysis_prompt(title, abstract)]
            /\ an_pc' = "done"

AnalyzerInit ==
    /\ an_pc = "idle"
    /\ an_abstract = <<>>
    /\ an_responses = <<>>
    /\ an_ret = NoCall
    /\ an_calls = 0
    /\ an_title = <<>>
    /\ an_prompts = <<>>

AnalyzerNext ==
    \/ An_analyze_abstract /\ UNCHANGED otherThanAnalyzer

\* ----------------------------------------------------- pipeline (main.py)
\* Config as main_task reads it, with the host's ability to import wxauto.
\* Config.validate (config.py 45-46) has passed: a recipient is set whenever
\* WECHAT_ENABLED is.
Configs ==
    {c \in [SEND_AS_IMAGE : BOOLEAN, WECHAT_ENABLED : BOOLEAN,
            WECHAT_RECIPIENT : BOOLEAN, wxauto : BOOLEAN] :
        c.WECHAT_ENABLED => c.WECHAT_RECIPIENT}

DefaultConfig ==
    [SEND_AS_IMAGE |-> TRUE, WECHAT_ENABLED |-> FALSE,
     WECHAT_RECIPIENT |-> FALSE, wxauto |-> FALSE]

\* The records search_papers can hand to the loop: distinct ids, any order.
PaperPool ==
    {[arxiv_id |-> IdA, abstract |-> <<"n", "e", "t">>],
     [arxiv_id |-> IdB, abstract |-> <<"a", "n", " ", "i", "m", "a", "g", "e">>]}

PaperLists ==
    {ps \in SeqsUpTo(PaperPool, Cardinality(PaperPool)) :
        \A i, j \in 1..Len(ps) : i # j => ps[i].arxiv_id # ps[j].arxiv_id}

\* image_generator.py: both generators catch everything and return None
SummaryImage == <<"generated_images", "/", "summary">>
SimpleImage == <<"generated_images", "/", "simple">>
generate_paper_image(full_ok) == IF full_ok THEN SummaryImage ELSE None
generate_simple_text_image(simple_ok) == IF simple_ok THEN SimpleImage ELSE None

\* generate_paper_image, lines 322-414: the right-hand panel is drawn (the
\* screenshot, or a placeholder when pasting it fails) only when a screenshot
\* path is given; with None the panel is left empty.
PreviewPanel(path) == IF path # None THEN "drawn" ELSE "empty"

\* EmailSender.send_paper_email, lines 192-251: one SMTP session, True when it
\* went through, False when anything raised.
send_paper_email(smtp_ok) ==
    [ret |-> smtp_ok, smtp |-> 1, kind |-> "html", image |-> None]

\* lines 274-276 without the HTML message: no image, nothing is sent
send_paper_image_email_NoHtmlFallback(full_ok, simple_ok, attach_ok, smtp_ok) ==
    LET first == generate_paper_image(full_ok)
        image_path == IF first = None THEN generate_simple_text_image(simple_ok)
                      ELSE first
    IN  IF image_path = None
        THEN [ret |-> FALSE, smtp |-> 0, kind |-> "none", image |-> None]
        ELSE IF ~attach_ok
        THEN [ret |-> FALSE, smtp |-> 0, kind |-> "image", image |-> image_path]
        ELSE [ret |-> smtp_ok, smtp |-> 1, kind |-> "image", image |-> image_path]

\* EmailSender.send_paper_image_email, lines 253-387
send_paper_image_email(full_ok, simple_ok, attach_ok, smtp_ok) ==
    LET first == generate_paper_image(full_ok)
        image_path == IF first = None THEN generate_simple_text_image(simple_ok)
                      ELSE first
    IN  IF image_path = None THEN send_paper_email(smtp_ok)
        ELSE IF ~attach_ok
        THEN [ret |-> FALSE, smtp |-> 0, kind |-> "image", image |-> image_path]
        ELSE [ret |-> smtp_ok, smtp |-> 1, kind |-> "image", image |-> image_path]

\* WeChatSender.__init__, lines 15-29
WeChatSender_init(cfg) == [enabled |-> cfg.WECHAT_ENABLED /\ cfg.wxauto, wx |-> FALSE]

\* WeChatSender.send_paper_image, lines 46-90, with _initialize_wechat.
\* session_ok: wxauto.WeChat() works; send_ok: SendFiles returns a true value.
send_paper_image(sender, cfg, image_path, session_ok, send_ok) ==
    IF ~sender.enabled THEN [ret |-> FALSE, sender |-> sender, sent |-> FALSE]
    ELSE IF ~cfg.WECHAT_RECIPIENT THEN [ret |-> FALSE, sender |-> sender, sent |-> FALSE]
    ELSE IF image_path = None THEN [ret |-> FALSE, sender |-> sender, sent |-> FALSE]
    ELSE IF ~sender.wx /\ ~session_ok
    THEN [ret |-> FALSE, sender |-> sender, sent |-> FALSE]
    ELSE [ret |-> send_ok, sender |-> [sender EXCEPT !.wx = TRUE], sent |-> TRUE]

\* line 76 made to depend on the e-mail result
Main_ShouldSendWeChat_OnlyAfterEmail(cfg, email_ok) == cfg.WECHAT_ENABLED /\ email_ok

\* line 76: if Config.WECHAT_ENABLED
Main_ShouldSendWeChat(cfg, email_ok) == cfg.WECHAT_ENABLED

\* lines 98-105
Main_LogResult(cfg, email_ok, wechat_ok) ==
    IF email_ok /\ (~cfg.WECHAT_ENABLED \/ wechat_ok) THEN "success"
    ELSE IF email_ok THEN "email_only"
    ELSE IF wechat_ok THEN "wechat_only"
    ELSE "both_failed"

\* the per-paper handler left out: the exception reaches line 113
Main_OnPaperError_Propagates(i) == [abort |-> TRUE]

\* lines 107-109: except Exception ... continue
Main_OnPaperError(i) == [abort |-> FALSE]

Paper == m_papers[m_i]

\* the body of lines 63-73 with the analyzer call of line 66 left out
Main_AfterArtifact_SkipsAnalyzer(path) == "email"

\* the body of lines 63-66 dropping a paper that has no screenshot
Main_AfterArtifact_DropsOnNone(path) == IF path = None THEN "logged" ELSE "analyze"

\* lines 63-66: the result of process_paper is stored and the body goes on
\* to the analyzer whatever it is
Main_AfterArtifact(path) == "analyze"

NoPaperObs ==
    [an_failed_all |-> FALSE, email_called |-> FALSE, smtp |-> 0,
     chat_called |-> FALSE, image_failed |-> FALSE, raised |-> FALSE,
     an_invoked |-> FALSE, email_kind |-> "none", email_image |-> None,
     smtp_ok |-> FALSE, chat_rendered |-> FALSE, chat_image |-> None,
     chat_panel |-> "none", chat_sent |-> FALSE, stages |-> <<>>]

NoHist ==
    [processed |-> <<>>, all_an_failed |-> TRUE, raised_at |-> {},
     emails_called |-> 0, partial_at |-> {}]

\* The state in which the loop body starts on paper i.
Main_StartPaper(i) ==
    /\ m_i' = i
    /\ screenshot_path' = None
    /\ analysis' = <<>>
    /\ email_success' = FALSE
    /\ wechat_success' = FALSE
    /\ m_log' = "none"
    /\ m_obs' = NoPaperObs

\* An exception inside the try of lines 61-105 while paper m_i is in hand.
Main_PaperRaised(obs, hist) ==
    /\ m_obs' = [obs EXCEPT !.raised = TRUE]
    /\ m_hist' = [hist EXCEPT !.raised_at = @ \cup {m_i}]
    /\ m_log' = "error"
    /\ IF Main_OnPaperError(m_i).abort
       THEN m_pc' = "done" /\ m_run' = "error"
       ELSE m_pc' = "logged" /\ m_run' = m_run

\* The log lines 98-105 once both channels have been dealt with.
Main_Logged(wechat_ok) ==
    /\ m_log' = Main_LogResult(m_cfg, email_success, wechat_ok)
    /\ m_hist' = [m_hist EXCEPT !.partial_at =
                    IF m_cfg.WECHAT_ENABLED /\ email_success # wechat_ok
                    THEN @ \cup {m_i} ELSE @]
    /\ m_pc' = "logged"
    /\ m_run' = m_run

\* __main__ with "once" and main_task down to the head of the loop, lines
\* 31-58: the components are built (any constructor may raise), the search
\* is made, and an empty result ends the run at line 55.
Main_task_begin ==
    /\ m_pc = "idle"
    /\ \E cfg \in Configs, init_ok \in BOOLEAN, found \in PaperLists :
        /\ m_cfg' = cfg
        /\ m_hist' = NoHist
        /\ IF ~init_ok
           THEN /\ m_run' = "error"
                /\ m_pc' = "done"
                /\ UNCHANGED <<m_papers, wechat_sender, m_i, screenshot_path, analysis,
                               email_success, wechat_success, m_log, m_obs>>
           ELSE /\ wechat_sender' = WeChatSender_init(cfg)
                /\ m_papers' = found
                /\ IF found = <<>>
                   THEN /\ m_run' = "no_papers"
                        /\ m_pc' = "done"
                        /\ UNCHANGED <<m_i, screenshot_path, analysis, email_success,
                                       wechat_success, m_log, m_obs>>
                   ELSE /\ m_run' = "running"
                        /\ m_pc' = "artifact"
                        /\ Main_StartPaper(1)
    /\ UNCHANGED <<pdf_file, png_file>>

\* line 63: screenshot_path = pdf_processor.process_paper(paper)
Main_artifact ==
    /\ m_pc = "artifact"
    /\ \E net \in NetOutcomes, render_ok \in BOOLEAN, remove_ok \in BOOLEAN :
        LET r == process_paper(Disk, Paper.arxiv_id, net, render_ok, remove_ok)
        IN  /\ pdf_file' = r.disk.pdf
            /\ png_file' = r.disk.png
            /\ screenshot_path' = r.ret
            /\ m_pc' = Main_AfterArtifact(r.ret)
    /\ m_hist' = [m_hist EXCEPT !.processed = Append(@, Paper.arxiv_id)]
    /\ m_obs' = [m_obs EXCEPT !.stages = Append(@, "artifact")]
    /\ UNCHANGED <<m_cfg, m_run, m_papers, m_i, analysis, email_success, wechat_success,
                   wechat_sender, m_log>>

\* line 66: analysis = gemini_analyzer.analyze_abstract(paper['abstract'])
Main_analyze ==
    /\ m_pc = "analyze"
    /\ \E responses \in [1..max_retries -> ModelResponses] :
        LET r == analyze_abstract(Paper.abstract, responses)
            failed == \A k \in 1..r.calls :
                        responses[k].raises \/ responses[k].text = <<>>
            obs == [m_obs EXCEPT !.an_failed_all = failed, !.an_invoked = (r.calls >= 1),
                                 !.stages = Append(@, "analyzer")]
            hist == [m_hist EXCEPT !.all_an_failed = @ /\ failed]
        IN  IF r.ret.raised
            THEN Main_PaperRaised(obs, hist) /\ UNCHANGED analysis
            ELSE /\ analysis' = r.ret.val
                 /\ m_obs' = obs
                 /\ m_hist' = hist
                 /\ m_pc' = "email"
                 /\ UNCHANGED <<m_run, m_log>>
    /\ UNCHANGED <<m_cfg, m_papers, m_i, screenshot_path, email_success, wechat_success,
                   wechat_sender, pdf_file, png_file>>

\* lines 69-73
Main_email ==
    /\ m_pc = "email"
    /\ \E full_ok \in BOOLEAN, simple_ok \in BOOLEAN, attach_ok \in BOOLEAN,
          smtp_ok \in BOOLEAN :
        LET r == IF m_cfg.SEND_AS_IMAGE
                 THEN send_paper_image_email(full_ok, simple_ok, attach_ok, smtp_ok)
                 ELSE send_paper_email(smtp_ok)
        IN  /\ email_success' = r.ret
            /\ m_obs' = [m_obs EXCEPT !.email_called = TRUE, !.smtp = r.smtp,
                                      !.email_kind = r.kind, !.email_image = r.image,
                                      !.smtp_ok = (r.smtp = 1 /\ smtp_ok),
                                      !.stages = Append(@, "email")]
    /\ m_hist' = [m_hist EXCEPT !.emails_called = @ + 1]
    /\ m_pc' = "wechat"
    /\ UNCHANGED <<m_cfg, m_run, m_papers, m_i, screenshot_path, analysis, wechat_success,
                   wechat_sender, m_log, pdf_file, png_file>>

\* lines 76-105: the chat branch and the log line.  gen_ok: ImageGenerator()
\* can be constructed (os.makedirs, line 18 of image_generator.py).
Main_wechat ==
    /\ m_pc = "wechat"
    /\ \E gen_ok \in BOOLEAN, full_ok \in BOOLEAN, simple_ok \in BOOLEAN,
          session_ok \in BOOLEAN, send_ok \in BOOLEAN :
        IF Main_ShouldSendWeChat(m_cfg, email_success)
        THEN IF ~gen_ok
             THEN /\ Main_PaperRaised([m_obs EXCEPT !.stages = Append(@, "chat")], m_hist)
                  /\ UNCHANGED <<wechat_success, wechat_sender>>
             ELSE LET first == generate_paper_image(full_ok)
                      image_path ==
                          IF ~m_cfg.SEND_AS_IMAGE /\ first = None
                          THEN generate_simple_text_image(simple_ok)
                          ELSE first
                      w == send_paper_image(wechat_sender, m_cfg, image_path,
                                            session_ok, send_ok)
                      ok == image_path # None /\ w.ret
                  IN  /\ wechat_success' = ok
                      /\ wechat_sender' = IF image_path # None THEN w.sender
                                          ELSE wechat_sender
                      /\ m_obs' = [m_obs EXCEPT !.chat_called = image_path # None,
                                                !.image_failed = (image_path = None),
                                                !.chat_rendered = TRUE,
                                                !.chat_image = image_path,
                                                !.chat_panel = PreviewPanel(screenshot_path),
                                                !.chat_sent = (image_path # None /\ w.sent),
                                                !.stages = Append(@, "chat")]
                      /\ Main_Logged(ok)
        ELSE /\ wechat_success' = FALSE
             /\ UNCHANGED <<wechat_sender, m_obs>>
             /\ Main_Logged(FALSE)
    /\ UNCHANGED <<m_cfg, m_papers, m_i, screenshot_path, analysis, email_success,
                   pdf_file, png_file>>

\* the for statement, line 58, after a paper: the next paper, or line 111
Main_next ==
    /\ m_pc = "logged"
    /\ IF m_i < Len(m_papers)
       THEN /\ m_pc' = "artifact"
            /\ Main_StartPaper(m_i + 1)
            /\ UNCHANGED m_run
       ELSE /\ m_pc' = "done"
            /\ m_run' = "completed"
            /\ UNCHANGED <<m_i, screenshot_path, analysis, email_success,
                           wechat_success, m_log, m_obs>>
    /\ UNCHANGED <<m_cfg, m_papers, wechat_sender, m_hist, pdf_file, png_file>>

MainInit ==
    /\ m_cfg = DefaultConfig
    /\ m_pc = "idle"
    /\ m_run = "idle"
    /\ m_papers = <<>>
    /\ m_i = 0
    /\ screenshot_path = None
    /\ analysis = <<>>
    /\ email_success = FALSE
    /\ wechat_success = FALSE
    /\ wechat_sender = [enabled |-> FALSE, wx |-> FALSE]
    /\ m_log = "none"
    /\ m_obs = NoPaperObs
    /\ m_hist = NoHist

MainNext ==
    \/ Main_task_begin /\ UNCHANGED otherThanMain
    \/ Main_artifact /\ UNCHANGED otherThanMain
    \/ Main_analyze /\ UNCHANGED otherThanMain
    \/ Main_email /\ UNCHANGED otherThanMain
    \/ Main_wechat /\ UNCHANGED otherThanMain
    \/ Main_next /\ UNCHANGED otherThanMain

\* ----------------------------------------------------------- specifications
otherThanRuns ==
    <<searchVars, analyzerVars, c_prev, c_last, c_count, mainVars, extractVars, startVars,
      queryVars, textVars>>

\* ------------------------------------------- successive runs (main_task)
MaxRuns == 2

NoIdRec == [called |-> 0, smtp |-> 0, chats |-> 0, cached |-> FALSE, delivered |-> FALSE]
NoRunLog == [i \in CacheIds |-> NoIdRec]
NoPrev == [found |-> {}, emailed |-> {}, delivered |-> {}]

RunPaper == r_papers[r_i]
RunIds == {r_papers[k].arxiv_id : k \in 1..Len(r_papers)}

\* a pipeline that remembers the ids it has delivered and passes them over
Main_SkipsPaper_IfDelivered(arxiv_id, delivered) == arxiv_id \in delivered

\* main.py 58-61: the loop takes up every paper search_papers returned; no
\* record of earlier deliveries exists to be consulted
Main_SkipsPaper(arxiv_id, delivered) == FALSE

\* What one call of the e-mail sender can give, lines 69-73.
EmailOutcomes(cfg) ==
    IF cfg.SEND_AS_IMAGE
    THEN {send_paper_image_email(f, s, a, m) : f, s, a, m \in BOOLEAN}
    ELSE {send_paper_email(m) : m \in BOOLEAN}

\* The image the chat branch can come to hold, lines 79-90.
ChatImages(cfg) ==
    {IF ~cfg.SEND_AS_IMAGE /\ generate_paper_image(f) = None
     THEN generate_simple_text_image(s) ELSE generate_paper_image(f) : f, s \in BOOLEAN}

\* The for statement after a paper: the next paper, or the end of the run.
Runs_AfterPaper(now) ==
    /\ r_now' = now
    /\ IF r_i < Len(r_papers)
       THEN r_i' = r_i + 1 /\ r_pc' = "artifact"
       ELSE r_pc' = "between" /\ UNCHANGED r_i

\* main_task is entered, lines 31-58: at the start of the process or when
\* the scheduler triggers it again.  Config is read once, when the process
\* starts; the components are built anew in each run.  r_prev takes over
\* what the run that has ended found, e-mailed and delivered.
Runs_task_begin ==
    /\ r_pc \in {"idle", "between"}
    /\ r_run < MaxRuns
    /\ \E cfg \in (IF r_pc = "idle" THEN Configs ELSE {r_cfg}), found \in PaperLists :
        /\ r_cfg' = cfg
        /\ r_sender' = WeChatSender_init(cfg)
        /\ r_papers' = found
        /\ r_pc' = IF found = <<>> THEN "between" ELSE "artifact"
    /\ r_prev' = [found |-> RunIds,
                  emailed |-> {id \in CacheIds : r_now[id].called > 0},
                  delivered |-> r_prev.delivered \cup {id \in CacheIds : r_now[id].delivered}]
    /\ r_run' = r_run + 1
    /\ r_i' = 1
    /\ r_now' = NoRunLog
    /\ UNCHANGED <<pdf_file, png_file>>

\* lines 63-66: the artifact stage and the analyzer, neither of which raises
Runs_artifact ==
    /\ r_pc = "artifact"
    /\ IF Main_SkipsPaper(RunPaper.arxiv_id, r_prev.delivered)
       THEN /\ Runs_AfterPaper(r_now)
            /\ UNCHANGED <<pdf_file, png_file>>
       ELSE /\ \E d \in {process_paper(Disk, RunPaper.arxiv_id, net, render_ok, remove_ok).disk :
                            net \in NetOutcomes, render_ok \in BOOLEAN, remove_ok \in BOOLEAN} :
                /\ pdf_file' = d.pdf
                /\ png_file' = d.png
            /\ r_now' = [r_now EXCEPT ![RunPaper.arxiv_id].cached = png_file[RunPaper.arxiv_id]]
            /\ r_pc' = "deliver"
            /\ UNCHANGED r_i
    /\ UNCHANGED <<r_cfg, r_run, r_papers, r_sender, r_prev>>

\* lines 69-105 for one paper: the e-mail sender, then the chat branch (whose
\* ImageGenerator() may raise, which the handler of 107-109 contains); what
\* they can leave of the chat sender and of the paper's record in the run
DeliverOutcomes(cfg, sender, rec) ==
    {LET w == send_paper_image(sender, cfg, image_path, session_ok, send_ok)
         chat == Main_ShouldSendWeChat(cfg, e.ret) /\ gen_ok /\ image_path # None
     IN  [sender |-> IF chat THEN w.sender ELSE sender,
          rec |-> [rec EXCEPT !.called = @ + 1,
                              !.smtp = @ + e.smtp,
                              !.chats = @ + (IF chat /\ w.sent THEN 1 ELSE 0),
                              !.delivered = e.ret \/ (chat /\ w.ret)]] :
        e \in EmailOutcomes(cfg), gen_ok \in BOOLEAN, image_path \in ChatImages(cfg),
        session_ok \in BOOLEAN, send_ok \in BOOLEAN}

Runs_deliver ==
    /\ r_pc = "deliver"
    /\ \E o \in DeliverOutcomes(r_cfg, r_sender, r_now[RunPaper.arxiv_id]) :
        /\ r_sender' = o.sender
        /\ Runs_AfterPaper([r_now EXCEPT ![RunPaper.arxiv_id] = o.rec])
    /\ UNCHANGED <<r_cfg, r_run, r_papers, r_prev, pdf_file, png_file>>

RunsInit ==
    /\ r_pc = "idle"
    /\ r_cfg = DefaultConfig
    /\ r_run = 0
    /\ r_papers = <<>>
    /\ r_i = 1
    /\ r_sender = [enabled |-> FALSE, wx |-> FALSE]
    /\ r_now = NoRunLog
    /\ r_prev = NoPrev

RunsNext ==
    \/ Runs_task_begin /\ UNCHANGED otherThanRuns
    \/ Runs_artifact /\ UNCHANGED otherThanRuns
    \/ Runs_deliver /\ UNCHANGED otherThanRuns

\* the entry URLs of the form .../abs/{id}vN
AbsEntryUrls == {LinkOf("abs", id, version, <<>>) : id \in LinkIds, version \in LinkVersions}

\* C30: for every entry URL of the form .../abs/{id}vN, of a new-style or a
\* legacy id, the id extraction of the Query-API adapter and that of the
\* Feed adapter yield the same arxiv_id, hence the same pdf_url.
C30_AdaptersExtractSameId ==
    (x_pc = "both" /\ x_link \in AbsEntryUrls) =>
        /\ x_api = x_ret
        /\ PdfUrlPrefix \o x_api \o DotPdf = PdfUrlPrefix \o x_ret \o DotPdf

\* C29: the pipeline keeps no record of delivered papers.  When a run has
\* ended and the run before it found some of the same paper ids, the e-mail
\* sender was called for each such id in both runs, whatever the first
\* delivery came to and whether or not the preview was cached; and within
\* one run no paper has more than one e-mail transmission or chat send.
C29_EveryRunDeliversAgain ==
    /\ \A id \in CacheIds :
           r_now[id].called <= 1 /\ r_now[id].smtp <= 1 /\ r_now[id].chats <= 1
    /\ (r_pc = "between" /\ r_run >= 2) =>
           \A id \in r_prev.found \cap RunIds :
               id \in r_prev.emailed /\ r_now[id].called = 1

\* a paper delivered by the run before, its preview cached, is e-mailed again
C29_Witness ==
    /\ r_pc = "between" /\ r_run = 2
    /\ \E id \in r_prev.found \cap RunIds :
           /\ id \in r_prev.delivered
           /\ r_now[id].cached
           /\ r_now[id].called = 1 /\ r_now[id].smtp = 1

\* ------------------------------------- text fields (title and abstract)
MaxTextLen == 5
TextAlphabet == {"a", " ", "\n"}
UpstreamTexts == SeqsUpTo(TextAlphabet, MaxTextLen)
TextFields == {"api.title", "api.abstract", "rss.title", "rss.abstract"}

\* arxiv_search.py 166-167 and arxiv_search_rss.py 147-157: the title (both
\* adapters) and the Query API's summary go through the replace chain, the
\* feed's summary through the Abstract: cut and html.unescape first
FieldOf(field, text) ==
    IF field = "rss.abstract" THEN Rss_cleaned_summary(text) ELSE NormalizeText(text)

Text_extract ==
    /\ n_pc = "idle"
    /\ \E field \in TextFields, text \in UpstreamTexts :
        /\ n_field' = field
        /\ n_text' = text
        /\ n_out' = FieldOf(field, text)
    /\ n_pc' = "done"

TextInit ==
    /\ n_pc = "idle"
    /\ n_field = "api.title"
    /\ n_text = <<>>
    /\ n_out = <<>>

TextNext ==
    \/ Text_extract /\ UNCHANGED otherThanText

\* ------------------------------------------- search query (build_query)
\* A query is the sequence of its tokens: parentheses, AND, OR, and the
\* field terms all:, submittedDate:[ TO ] and cat:.
Tok(t, a, b) == [t |-> t, a |-> a, b |-> b]
LParen == Tok("(", "", "")
RParen == Tok(")", "", "")
AndTok == Tok("AND", "", "")
OrTok == Tok("OR", "", "")

\* lines 27-35
cs_categories == <<"cs.AI", "cs.CL", "cs.CV", "cs.LG", "cs.NE", "cs.RO", "stat.ML">>

\* date.today() as a day number
Today == NowTick \div TicksPerDay

\* get_date_range_for_arxiv, lines 13-22
get_date_range_for_arxiv(days_back) == [start_date |-> Today - days_back, end_date |-> Today]

\* sep.join(items)
RECURSIVE JoinTokens(_, _)
JoinTokens(items, sep) ==
    IF Len(items) = 0 THEN <<>>
    ELSE IF Len(items) = 1 THEN <<items[1]>>
    ELSE <<items[1], sep>> \o JoinTokens(Tail(items), sep)

\* build_query, lines 48-63:
\* f"({keyword_query}) AND {time_query} AND {categories_part}"
build_query(keyword, days_back) ==
    LET keyword_query == Tok("all", Strip(keyword), "")
        category_queries == [i \in 1..Len(cs_categories) |-> Tok("cat", cs_categories[i], "")]
        categories_part == JoinTokens(category_queries, OrTok)
        range == get_date_range_for_arxiv(days_back)
        time_query == Tok("submittedDate", range.start_date, range.end_date)
    IN  <<LParen, keyword_query, RParen, AndTok, time_query, AndTok>> \o categories_part

\* The documents of the upstream index: whether the text matches the
\* keyword searched for, the day of submission, the primary category.
DocDays == {Today - MaxDaysBack - 1, Today - 1, Today}
DocCategories == {cs_categories[i] : i \in 1..Len(cs_categories)} \cup {"math.CO"}
Docs == [kw : BOOLEAN, day : DocDays, cat : DocCategories]

\* The pieces of tokens between the occurrences of sep outside parentheses.
RECURSIVE SplitTop(_, _, _, _, _)
SplitTop(tokens, sep, depth, cur, acc) ==
    IF Len(tokens) = 0 THEN Append(acc, cur)
    ELSE SplitTop(Tail(tokens), sep,
                  depth + (IF Head(tokens).t = "(" THEN 1
                           ELSE IF Head(tokens).t = ")" THEN 0 - 1 ELSE 0),
                  IF depth = 0 /\ Head(tokens).t = sep THEN <<>>
                  ELSE Append(cur, Head(tokens)),
                  IF depth = 0 /\ Head(tokens).t = sep THEN Append(acc, cur) ELSE acc)

\* One field term against a document.
MatchesTerm(doc, tok) ==
    CASE tok.t = "all" -> doc.kw
      [] tok.t = "submittedDate" -> tok.a <= doc.day /\ doc.day <= tok.b
      [] tok.t = "cat" -> doc.cat = tok.a
      [] OTHER -> FALSE

\* The upstream's reading of a query: a disjunction of conjunctions (AND
\* binds tighter than OR), a parenthesised part being a query itself.
RECURSIVE MatchesQuery(_, _)
RECURSIVE MatchesPart(_, _)
MatchesQuery(doc, tokens) ==
    \E d \in {SplitTop(tokens, "OR", 0, <<>>, <<>>)} :
        \E i \in 1..Len(d) :
            \E c \in {SplitTop(d[i], "AND", 0, <<>>, <<>>)} :
                \A j \in 1..Len(c) : MatchesPart(doc, c[j])

MatchesPart(doc, part) ==
    IF Len(part) = 1 THEN MatchesTerm(doc, part[1])
    ELSE IF Len(part) >= 3 /\ part[1].t = "(" /\ part[Len(part)].t = ")"
    THEN MatchesQuery(doc, SubSeq(part, 2, Len(part) - 1))
    ELSE FALSE

QueryKeywords == KeywordPool \cup { <<"n", "e", "t">> }

\* line 84: query = self.build_query(keyword, max_results, days_back)
Query_build ==
    /\ q_pc = "idle"
    /\ \E keyword \in QueryKeywords, days_back \in 1..MaxDaysBack :
        /\ q_keyword' = keyword
        /\ q_days_back' = days_back
        /\ q_query' = build_query(keyword, days_back)
    /\ q_pc' = "built"
    /\ UNCHANGED q_doc

\* lines 96-100: the upstream answers with a document that solves the query
Query_answer ==
    /\ q_pc = "built"
    /\ \E doc \in Docs :
        /\ MatchesQuery(doc, q_query)
        /\ q_doc' = doc
    /\ q_pc' = "answered"
    /\ UNCHANGED <<q_keyword, q_days_back, q_query>>

QueryInit ==
    /\ q_pc = "idle"
    /\ q_keyword = <<>>
    /\ q_days_back = 1
    /\ q_query = <<>>
    /\ q_doc = [kw |-> FALSE, day |-> Today, cat |-> "math.CO"]

QueryNext ==
    \/ Query_build /\ UNCHANGED otherThanQuery
    \/ Query_answer /\ UNCHANGED otherThanQuery

\* ------------------------------------------ startup (config.py, __main__)
MaxTicks == 3
NoExit == 0 - 1

\* os.getenv gives None for an unset variable, and its text otherwise
EnvValues == {None, <<" ">>, <<"s", "e", "t">>}

Environments ==
    [GEMINI_API_KEY : EnvValues, SENDER_EMAIL : EnvValues, SENDER_PASSWORD : EnvValues,
     RECIPIENT_EMAIL : EnvValues, WECHAT_RECIPIENT : EnvValues, WECHAT_ENABLED : BOOLEAN]

NoEnvironment ==
    [GEMINI_API_KEY |-> None, SENDER_EMAIL |-> None, SENDER_PASSWORD |-> None,
     RECIPIENT_EMAIL |-> None, WECHAT_RECIPIENT |-> None, WECHAT_ENABLED |-> FALSE]

\* lines 37-46 without the chat recipient
Config_required_vars_EmailOnly(env) ==
    <<"GEMINI_API_KEY", "SENDER_EMAIL", "SENDER_PASSWORD", "RECIPIENT_EMAIL">>

\* Config.validate, lines 37-46: the names whose values are required
Config_required_vars(env) ==
    <<"GEMINI_API_KEY", "SENDER_EMAIL", "SENDER_PASSWORD", "RECIPIENT_EMAIL">>
        \o (IF env.WECHAT_ENABLED THEN <<"WECHAT_RECIPIENT">> ELSE <<>>)

\* line 48: the required names whose value is None or ""
Config_missing_vars(env) ==
    SelectSeq(Config_required_vars(env), LAMBDA name : env[name] = <<>>)

\* Config.validate, lines 35-53: ValueError when a name is missing
Config_validate(env) ==
    IF Config_missing_vars(env) # <<>> THEN Raised ELSE Returned(TRUE)

\* __main__, lines 130-146, up to the choice of run mode: validate, makedirs
\* (mkdir_ok), then run_once or run_scheduled; any exception ends the
\* process with sys.exit(1).
Start_main ==
    /\ st_pc = "idle"
    /\ \E env \in Environments, once \in BOOLEAN, mkdir_ok \in BOOLEAN :
        /\ st_env' = env
        /\ st_once' = once
        /\ IF Config_validate(env).raised \/ ~mkdir_ok
           THEN st_pc' = "exited" /\ st_exit' = 1
           ELSE /\ st_pc' = IF once THEN "run_once" ELSE "run_scheduled"
                /\ UNCHANGED st_exit
    /\ UNCHANGED <<st_tasks, st_ticks, st_active, st_runs>>

\* How a call of main_task can end: line 111, line 55, or an exception
\* inside the try of lines 32-111 (a constructor, the search, the loop).
TaskOutcomes == {"completed", "no_papers", "error"}

\* main_task without its handler: the exception leaves main_task
Task_OnError_Propagates(outcome) == [raises |-> outcome = "error"]

\* main_task, lines 113-114: except Exception, the error is logged and
\* main_task returns
Task_OnError(outcome) == [raises |-> FALSE]

\* run_once, lines 116-118: main_task, then the interpreter ends with
\* status 0 (1 through line 146 should main_task raise)
Start_run_once ==
    /\ st_pc = "run_once"
    /\ \E outcome \in TaskOutcomes :
        /\ st_runs' = Append(st_runs, outcome)
        /\ st_exit' = IF Task_OnError(outcome).raises THEN 1 ELSE 0
    /\ st_tasks' = st_tasks + 1
    /\ st_pc' = "exited"
    /\ UNCHANGED <<st_env, st_once, st_ticks, st_active>>

\* run_scheduled, line 122: the job is registered; at() raises on a
\* malformed SCHEDULE_TIME (time_ok), which line 144 turns into exit 1
Start_run_scheduled ==
    /\ st_pc = "run_scheduled"
    /\ \E time_ok \in BOOLEAN :
        IF time_ok THEN st_pc' = "waiting" /\ UNCHANGED st_exit
        ELSE st_pc' = "exited" /\ st_exit' = 1
    /\ UNCHANGED <<st_env, st_once, st_tasks, st_ticks, st_active, st_runs>>

\* run_scheduled, lines 126-128: a pass of the loop in which the daily time
\* has not come: run_pending does nothing, then sleep(60)
Start_tick ==
    /\ st_pc = "waiting"
    /\ st_ticks < MaxTicks
    /\ st_ticks' = st_ticks + 1
    /\ UNCHANGED <<st_pc, st_env, st_once, st_exit, st_tasks, st_active, st_runs>>

\* line 127: the daily time has come and run_pending calls main_task, in the
\* thread of the loop
Start_trigger ==
    /\ st_pc = "waiting"
    /\ st_ticks < MaxTicks
    /\ st_pc' = "in_task"
    /\ st_tasks' = st_tasks + 1
    /\ st_active' = st_active + 1
    /\ UNCHANGED <<st_env, st_once, st_exit, st_ticks, st_runs>>

\* main_task returns to run_pending, then sleep(60), line 128; an exception
\* leaving main_task would leave the loop and reach line 144
Start_task_end ==
    /\ st_pc = "in_task"
    /\ \E outcome \in TaskOutcomes :
        /\ st_runs' = Append(st_runs, outcome)
        /\ IF Task_OnError(outcome).raises
           THEN st_pc' = "exited" /\ st_exit' = 1
           ELSE st_pc' = "waiting" /\ UNCHANGED st_exit
    /\ st_active' = st_active - 1
    /\ st_ticks' = st_ticks + 1
    /\ UNCHANGED <<st_env, st_once, st_tasks>>

StartInit ==
    /\ st_pc = "idle"
    /\ st_env = NoEnvironment
    /\ st_once = FALSE
    /\ st_exit = NoExit
    /\ st_tasks = 0
    /\ st_ticks = 0
    /\ st_active = 0
    /\ st_runs = <<>>

StartNext ==
    \/ Start_main /\ UNCHANGED otherThanStart
    \/ Start_run_once /\ UNCHANGED otherThanStart
    \/ Start_run_scheduled /\ UNCHANGED otherThanStart
    \/ Start_tick /\ UNCHANGED otherThanStart
    \/ Start_trigger /\ UNCHANGED otherThanStart
    \/ Start_task_end /\ UNCHANGED otherThanStart

Init == SearchInit /\ CacheInit /\ AnalyzerInit /\ MainInit /\ ExtractInit /\ StartInit
        /\ QueryInit /\ TextInit /\ RunsInit

SpecSearch == Init /\ [][SearchNext]_vars
SpecCache == Init /\ [][CacheNext]_vars
SpecAnalyzer == Init /\ [][AnalyzerNext]_vars
SpecMain == Init /\ [][MainNext]_vars
SpecExtract == Init /\ [][ExtractNext]_vars
SpecStart == Init /\ [][StartNext]_vars
SpecQuery == Init /\ [][QueryNext]_vars
SpecText == Init /\ [][TextNext]_vars
SpecRuns == Init /\ [][RunsNext]_vars

\* --------------------------------------------------------- search: claims
Result == s_ret.val
SearchDone == s_pc = "done"

\* C1: the list search_papers returns (either adapter) holds no two records
\* with the same arxiv_id, however often the upstream offered the paper.
C1_NoDuplicateIds ==
    SearchDone /\ ~s_ret.raised =>
        \A i, j \in 1..Len(Result) : i # j => Result[i].arxiv_id # Result[j].arxiv_id

\* C1 witness: a call that was offered an id again after appending it.
C1_Witness ==
    /\ SearchDone /\ ~s_ret.raised
    /\ s_obs.dup
    /\ Len(Result) >= 1

\* C8: search_papers never raises and returns a list; every keyword is
\* queried whatever happened to the keywords before it; the records appended
\* for a keyword are in the result whatever happened to the other keywords;
\* when every request failed the list is empty.
C8_NeverRaises ==
    SearchDone =>
        /\ ~s_ret.raised
        /\ s_adapter = "api" => s_obs.requests = Len(s_keywords)
        /\ IdsOf(s_obs.accepted) \subseteq IdsOf(Result)
        /\ s_obs.failed = s_obs.requests => Result = <<>>

\* C8 witness: a Query-API call in which a request failed, an item failed
\* extraction, and a record of another keyword is returned.
C8_Witness ==
    /\ SearchDone /\ s_adapter = "api"
    /\ s_obs.failed >= 1 /\ s_obs.bad
    /\ Len(Result) >= 1

\* C9: every returned record is dated at or after now - days_back, and a new
\* record dated exactly at the cutoff is never dropped.
C9_WindowFilter ==
    SearchDone /\ ~s_ret.raised =>
        /\ \A i \in 1..Len(Result) : Result[i].published_date >= Cutoff(s_days_back)
        /\ ~s_obs.edge_lost

\* C9 witness: days_back = 1, the upstream offered a record dated two days
\* before now, and a record dated exactly at the cutoff is returned.
C9_Witness ==
    /\ SearchDone /\ ~s_ret.raised
    /\ s_days_back = 1
    /\ \E st \in s_obs.stale : st.published_date = NowTick - 2 * TicksPerDay
    /\ \E i \in 1..Len(Result) : Result[i].published_date = Cutoff(1)

\* C10: the returned list is in non-increasing order of published_date.
C10_SortedDescending ==
    SearchDone /\ ~s_ret.raised =>
        \A i, j \in 1..Len(Result) :
            i < j => Result[i].published_date >= Result[j].published_date

\* C10 witness: three records appended in the order oldest, newest, middle
\* come out newest, middle, oldest.
C10_Witness ==
    /\ SearchDone /\ ~s_ret.raised
    /\ Len(s_obs.accepted) = 3 /\ Len(Result) = 3
    /\ s_obs.accepted[1].published_date < s_obs.accepted[3].published_date
    /\ s_obs.accepted[3].published_date < s_obs.accepted[2].published_date
    /\ Result[1].arxiv_id = s_obs.accepted[2].arxiv_id
    /\ Result[2].arxiv_id = s_obs.accepted[3].arxiv_id
    /\ Result[3].arxiv_id = s_obs.accepted[1].arxiv_id

\* C12: every record search_papers returns (either adapter) has a non-empty
\* arxiv_id and the pdf_url https://arxiv.org/pdf/{arxiv_id}.pdf; so an item
\* that carries neither a link nor an id is not in the output.
C12_IdAndPdfUrlOfEveryRecord ==
    SearchDone =>
        \A k \in 1..Len(Result) :
            /\ Result[k].arxiv_id # <<>>
            /\ Result[k].pdf_url = PdfUrlPrefix \o Result[k].arxiv_id \o DotPdf

\* The unique in-window records accumulated during the call.
TotalUniqueCount == Len(s_obs.accepted)

TextBlob(rec) == Lower(rec.title \o <<"\n">> \o rec.abstract)

\* C13 as stated: whatever the keyword list, every record the feed adapter
\* returns holds one of the lower-cased, trimmed keywords as a substring of
\* its lower-cased title and abstract.
C13_KeywordFilterForEveryList ==
    SearchDone /\ s_adapter = "rss" =>
        \A k \in 1..Len(Result) :
            \E i \in 1..Len(s_keywords) :
                Contains(TextBlob(Result[k]), Lower(Strip(s_keywords[i])))

\* C13 amended: when the keyword list holds a non-blank keyword, every record
\* the feed adapter returns holds one of the non-blank keywords, lower-cased
\* and trimmed, as a substring of its lower-cased title and abstract.
C13_KeywordFilterWhenKeywordsGiven ==
    (/\ SearchDone /\ s_adapter = "rss"
     /\ \E i \in 1..Len(s_keywords) : Strip(s_keywords[i]) # <<>>) =>
        \A k \in 1..Len(Result) :
            \E i \in 1..Len(s_keywords) :
                /\ Strip(s_keywords[i]) # <<>>
                /\ Contains(TextBlob(Result[k]), Lower(Strip(s_keywords[i])))

\* C13 witness: with a non-blank keyword given, the feed carried a fresh item
\* that the keyword filter dropped and one that it let through.
C13_Witness ==
    /\ SearchDone /\ s_adapter = "rss"
    /\ \E i \in 1..Len(s_keywords) : Strip(s_keywords[i]) # <<>>
    /\ s_obs.unmatched
    /\ Len(Result) = 1

\* C11: a link of one of the three documented shapes around {id}, with a
\* version vN and possibly a ?query string, is mapped to exactly {id}.
C11_ExtractsIdFromEveryShape ==
    x_pc = "done" => x_ret = x_id

\* The publication date of an upstream entry is missing or does not parse.
DateMalformed(pub) == pub.kind \in {"bad", "none", "invalid"}

\* The entry URLs (each entry of a pool has its own) of the malformed ones.
Api_MalformedUrls == {e.id : e \in {x \in ApiEntryPool : DateMalformed(x.pub)}}
Rss_UrlOf(e) == IF e.link # <<>> THEN e.link ELSE IF e.alt # <<>> THEN e.alt ELSE e.id
Rss_MalformedUrls == {Rss_UrlOf(e) : e \in {x \in RssEntryPool : DateMalformed(x.pub)}}
Rss_RaisingUrls == {Rss_UrlOf(e) : e \in {x \in RssEntryPool : x.pub.kind = "invalid"}}

C2_CachedPreviewReturnedAtOnce ==
    c_last.op = "process_paper" /\ c_last.png_before =>
        /\ c_last.ret = ScreenshotPath(c_last.id)
        /\ ~c_last.fetched
        /\ ~c_last.rendered

\* C3: when download_pdf returned a path, the next call of download_pdf for
\* the same id returns the same path and fetches nothing; over the two calls
\* at most one fetch is made.
C3_SecondDownloadHitsCache ==
    /\ c_prev.op = "download_pdf" /\ c_prev.ret # None
    /\ c_last.op = "download_pdf" /\ c_last.id = c_prev.id
    => /\ c_last.ret = c_prev.ret
       /\ ~c_last.fetched

\* C3 witness: a download that fetched the document and returned its path,
\* followed by a second download of the same id.
C3_Witness ==
    /\ c_prev.op = "download_pdf" /\ c_prev.ret # None /\ c_prev.fetched
    /\ c_last.op = "download_pdf" /\ c_last.id = c_prev.id
    /\ c_last.ret = PdfPath(c_prev.id)

\* C21: once download_pdf has returned None for an id, no file is at the
\* final path of that id, so that a download never returns the path of a
\* partly written document as a cache hit.
C21_FailedDownloadLeavesNoFile ==
    /\ (c_last.op = "download_pdf" /\ c_last.ret = None) =>
            pdf_file[c_last.id] = "absent"
    /\ (c_last.op = "download_pdf" /\ c_last.ret # None /\ ~c_last.fetched) =>
            pdf_file[c_last.id] = "complete"

\* C26: when process_paper returns a path it is the preview path of the id,
\* the preview file exists, os.remove was called on the document and, unless
\* it failed, the document is gone; when the render fails after a download
\* that gave a path, os.remove is not called and the document stays.
C26_PreviewKeptDocumentRemoved ==
    c_last.op = "process_paper" =>
        /\ c_last.ret # None =>
            /\ c_last.ret = ScreenshotPath(c_last.id)
            /\ png_file[c_last.id]
            /\ c_last.remove \in {"ok", "failed"}
            /\ c_last.remove = "ok" => pdf_file[c_last.id] = "absent"
        /\ (c_last.ret = None /\ c_last.downloaded) =>
            /\ c_last.remove = "none"
            /\ pdf_file[c_last.id] # "absent"

\* C26 witness: process_paper fetched and rendered, os.remove failed, and the
\* preview path was returned with the document still on disk.
C26_Witness ==
    /\ c_last.op = "process_paper" /\ c_last.fetched /\ c_last.rendered
    /\ c_last.remove = "failed"
    /\ c_last.ret = ScreenshotPath(c_last.id)
    /\ png_file[c_last.id] /\ pdf_file[c_last.id] = "complete"

\* ------------------------------------------------------- analyzer: claims
\* C5: whatever the model does on each attempt, analyze_abstract returns a
\* non-empty text and does not raise.
C5_AnalysisNeverEmpty ==
    an_pc = "done" => ~an_ret.raised /\ an_ret.val # <<>>

\* The attempts on which the model answered with a non-empty text.
GoodAttempts == {k \in 1..max_retries :
                    ~an_responses[k].raises /\ an_responses[k].text # <<>>}
FirstGoodAttempt == CHOOSE k \in GoodAttempts : \A j \in GoodAttempts : k <= j

\* C15: one call invokes the model at most max_retries times, each time with
\* the prompt made of the call's title and abstract; it stops at the first
\* attempt answered with a non-empty text and returns that text (stripped);
\* when all max_retries attempts fail it returns the fallback summary.
C15_BoundedRetrySamePrompt ==
    an_pc = "done" =>
        /\ an_calls <= max_retries
        /\ Len(an_prompts) = an_calls
        /\ \A k \in 1..an_calls : an_prompts[k] = analysis_prompt(an_title, an_abstract)
        /\ IF GoodAttempts # {}
           THEN /\ an_calls = FirstGoodAttempt
                /\ an_ret = Returned(Strip(an_responses[FirstGoodAttempt].text))
           ELSE /\ an_calls = max_retries
                /\ an_ret = Returned(_get_fallback_analysis(an_abstract))

\* C15 witness: the first attempt raised, the second was answered with an
\* empty text, the third with a text, which the call returned.
C15_Witness ==
    /\ an_pc = "done"
    /\ an_responses[1].raises
    /\ ~an_responses[2].raises /\ an_responses[2].text = <<>>
    /\ GoodAttempts = {3}
    /\ an_calls = 3
    /\ an_ret = Returned(Strip(an_responses[3].text))

\* ------------------------------------------------------- pipeline: claims
\* C4: a paper whose every analyzer attempt failed (raised or gave an empty
\* text) carries the non-empty fallback text into delivery; and a run in
\* which that happened to every paper ends at line 111, having called the
\* e-mail sender once for each paper found.
C4_AnalyzerFailureStillDelivers ==
    /\ (m_pc \in {"email", "wechat", "logged"} /\ m_obs.an_failed_all) =>
        /\ analysis = _get_fallback_analysis(Paper.abstract)
        /\ analysis # <<>>
    /\ (m_pc = "done" /\ m_papers # <<>> /\ m_hist.all_an_failed) =>
        /\ m_run = "completed"
        /\ m_hist.emails_called = Len(m_papers)

\* C4 witness: a finished run over two papers in which no analyzer attempt
\* succeeded and both papers went to the e-mail sender.
C4_Witness ==
    /\ m_pc = "done" /\ m_run = "completed"
    /\ Len(m_papers) = 2
    /\ m_hist.all_an_failed
    /\ m_hist.emails_called = 2
    /\ m_obs.an_failed_all /\ analysis # <<>>

\* C6: with the chat channel enabled and no exception in the loop body, the
\* e-mail sender has been called, the chat sender has been called unless no
\* image could be made for it (whatever the e-mail result was), a paper
\* that went out by one channel only is logged as e-mail-only or chat-only,
\* and a run that ends at line 111 has taken up every paper.
C6_PartialFailureIsLoggedAndPassed ==
    /\ (m_pc = "logged" /\ m_cfg.WECHAT_ENABLED /\ ~m_obs.raised) =>
        /\ m_obs.email_called
        /\ m_obs.chat_called \/ m_obs.image_failed
        /\ (email_success /\ ~wechat_success => m_log = "email_only")
        /\ (~email_success /\ wechat_success => m_log = "wechat_only")
    /\ (m_pc = "done" /\ m_run = "completed") =>
        Len(m_hist.processed) = Len(m_papers)

\* C6 witness: a finished run over two papers, the first of which went out by
\* one channel only and the second by chat only after its e-mail failed.
C6_Witness ==
    /\ m_pc = "done" /\ m_run = "completed"
    /\ m_cfg.WECHAT_ENABLED
    /\ m_hist.partial_at = {1, 2}
    /\ Len(m_hist.processed) = 2
    /\ ~email_success /\ wechat_success /\ m_obs.chat_called
    /\ m_log = "wechat_only"

\* The papers whose loop body has been entered.
Entered == IF m_pc = "artifact" THEN m_i - 1 ELSE m_i

\* C7: the papers taken up so far are exactly the first papers of the search
\* result, once each and in its order; only a failure before the loop ends a
\* run in error; and a run that ended otherwise has taken up every paper.
C7_PaperErrorsAreContained ==
    /\ Entered <= Len(m_papers)
    /\ m_hist.processed = [k \in 1..Entered |-> m_papers[k].arxiv_id]
    /\ (m_run = "error" => m_i = 0)
    /\ (m_pc = "done" /\ m_run # "error" => m_i = Len(m_papers))

\* C7 witness: a finished run over two papers whose first paper raised inside
\* the loop body and whose second paper was still taken up.
C7_Witness ==
    /\ m_pc = "done" /\ m_run = "completed"
    /\ 1 \in m_hist.raised_at
    /\ Len(m_hist.processed) = 2
    /\ m_i = 2


\* The stages of the loop body in the order of lines 63-95.
StageOrder == <<"artifact", "analyzer", "email", "chat">>

\* C25: the stages gone through for the paper in hand are the first stages
\* of artifact, analyzer, e-mail, chat, in that order: the analyzer is not
\* invoked before the artifact stage has returned, and neither channel is
\* called before the analyzer has returned.
C25_StagesInOrder ==
    /\ Len(m_obs.stages) <= Len(StageOrder)
    /\ m_obs.stages = SubSeq(StageOrder, 1, Len(m_obs.stages))
    /\ (m_obs.email_called \/ m_obs.chat_rendered) => m_obs.an_invoked

\* C25 witness: a paper that went through all four stages and was sent by
\* both channels.
C25_Witness ==
    /\ m_pc = "logged"
    /\ m_obs.stages = StageOrder
    /\ m_obs.an_invoked /\ email_success /\ m_obs.chat_sent

\* The chat branch of lines 76-95 ran to the log line for the paper in hand.
ChatStageRan ==
    m_pc = "logged" /\ m_cfg.WECHAT_ENABLED /\ ~m_obs.raised /\ m_obs.chat_rendered

\* C16: when the full image could not be rendered for the chat channel and
\* the simple image was rendered for this paper, chat delivery is attempted
\* with the simple image, whatever SEND_AS_IMAGE is.
C16_SimpleImageFallbackForChat ==
    (/\ ChatStageRan
     /\ m_obs.chat_image # SummaryImage
     /\ SimpleImage \in {m_obs.email_image, m_obs.chat_image}) =>
        /\ m_obs.chat_called
        /\ m_obs.chat_image = SimpleImage

\* Every render asked for while the paper in hand was delivered has failed.
AllRendersFailed ==
    /\ m_obs.email_called /\ m_obs.email_image = None
    /\ m_cfg.WECHAT_ENABLED => m_obs.chat_rendered /\ m_obs.chat_image = None

\* C17: in image-email mode, a paper for which no image could be rendered
\* gets one SMTP attempt, made with the HTML message, whose outcome is the
\* e-mail result; the chat channel sends nothing for it.
C17_HtmlFallbackWhenNoImage ==
    (m_pc = "logged" /\ m_cfg.SEND_AS_IMAGE /\ ~m_obs.raised /\ AllRendersFailed) =>
        /\ m_obs.email_kind = "html"
        /\ m_obs.smtp = 1
        /\ email_success = m_obs.smtp_ok
        /\ ~m_obs.chat_called /\ ~m_obs.chat_sent /\ ~wechat_success

\* C17 witness: image-email mode with chat enabled, no image rendered at
\* either stage, the HTML message went through.
C17_Witness ==
    /\ m_pc = "logged" /\ m_cfg.SEND_AS_IMAGE /\ m_cfg.WECHAT_ENABLED /\ m_cfg.wxauto
    /\ ~m_obs.raised /\ AllRendersFailed
    /\ m_obs.email_kind = "html" /\ email_success
    /\ m_log = "email_only"

\* C18: with chat enabled in the configuration and wxauto not importable,
\* no session is opened, nothing is sent over chat, and a paper whose e-mail
\* went through is logged as a full success.
C18_ChatSelfDisables ==
    (m_pc = "logged" /\ m_cfg.WECHAT_ENABLED /\ ~m_cfg.wxauto /\ ~m_obs.raised) =>
        /\ ~wechat_sender.wx
        /\ ~m_obs.chat_sent
        /\ email_success => m_log = "success"

\* C20: a paper whose artifact stage returned None goes through the
\* analyzer and the e-mail sender, and, with chat enabled, has its image
\* rendered with an empty preview panel and sent whenever it was rendered.
C20_NoPreviewIsNotAnError ==
    (m_pc = "logged" /\ screenshot_path = None) =>
        /\ m_obs.an_invoked
        /\ m_obs.email_called
        /\ (m_cfg.WECHAT_ENABLED /\ ~m_obs.raised) =>
            /\ m_obs.chat_rendered
            /\ m_obs.chat_panel = "empty"
            /\ m_obs.chat_image # None => m_obs.chat_called

\* C20 witness: no screenshot, and both channels delivered the paper.
C20_Witness ==
    /\ m_pc = "logged" /\ screenshot_path = None
    /\ m_cfg.WECHAT_ENABLED /\ ~m_obs.raised
    /\ m_obs.an_invoked /\ m_obs.chat_panel = "empty"
    /\ email_success /\ wechat_success /\ m_obs.chat_sent
    /\ m_log = "success"


\* ------------------------------------------------------- startup: claims
\* A credential the enabled channels need is unset or empty.
CredentialMissing ==
    \/ st_env.GEMINI_API_KEY = <<>>
    \/ st_env.SENDER_EMAIL = <<>>
    \/ st_env.SENDER_PASSWORD = <<>>
    \/ st_env.RECIPIENT_EMAIL = <<>>
    \/ st_env.WECHAT_ENABLED /\ st_env.WECHAT_RECIPIENT = <<>>

\* C19: started with a required credential missing, the process has exited
\* with status 1 without main_task ever being entered, with and without
\* the "once" argument.
C19_MissingCredentialFailsFast ==
    (st_pc # "idle" /\ CredentialMissing) =>
        /\ st_pc = "exited"
        /\ st_exit = 1
        /\ st_tasks = 0

\* C19 witness: scheduled mode, chat enabled, only the chat recipient is
\* missing, and the process has exited with status 1.
C19_Witness ==
    /\ st_pc = "exited" /\ st_exit = 1 /\ st_tasks = 0
    /\ ~st_once
    /\ st_env.WECHAT_ENABLED /\ st_env.WECHAT_RECIPIENT = <<>>
    /\ st_env.GEMINI_API_KEY # <<>> /\ st_env.SENDER_EMAIL # <<>>
    /\ st_env.SENDER_PASSWORD # <<>> /\ st_env.RECIPIENT_EMAIL # <<>>


\* --------------------------------------------------------- query: claims
\* C22: a document the upstream gives for the query of a keyword and lies
\* in an allowlisted category matches the keyword and was submitted within
\* the date range.
C22_QueryIsConjunction ==
    (q_pc = "answered" /\ q_doc.cat \in {cs_categories[i] : i \in 1..Len(cs_categories)}) =>
        /\ q_doc.kw
        /\ Today - q_days_back <= q_doc.day /\ q_doc.day <= Today


\* ---------------------------------------------------- text fields: claims
\* C24: whatever the upstream string, the title or abstract made of it
\* holds no newline and no two spaces in a row.
C24_NoNewlineNoDoubleSpace ==
    n_pc = "done" =>
        /\ \A i \in 1..Len(n_out) : n_out[i] # "\n"
        /\ \A i \in 1..(Len(n_out) - 1) : ~(n_out[i] = " " /\ n_out[i + 1] = " ")


\* C27: in scheduled mode the process is still in the scheduler loop after
\* every run, however the run ended; while the loop waits a new run can be
\* triggered; and main_task is never entered while a call of it is going on.
C27_SchedulerSurvivesFailedRuns ==
    /\ st_active <= 1
    /\ (st_pc = "in_task") = (st_active = 1)
    /\ (~st_once /\ st_runs # <<>>) =>
        /\ st_pc \in {"waiting", "in_task"}
        /\ st_exit = NoExit
        /\ st_tasks \in {Len(st_runs), Len(st_runs) + 1}
        /\ (st_pc = "waiting" /\ st_ticks < MaxTicks) => ENABLED Start_trigger

\* C27 witness: scheduled mode, a run that failed, then a run that
\* completed, and the loop waiting again.
C27_Witness ==
    /\ ~st_once /\ st_pc = "waiting" /\ st_exit = NoExit
    /\ st_runs = <<"error", "completed">>
    /\ st_tasks = 2

====
